---------------------------- MODULE Spec2Model ----------------------------
(***************************************************************************)
(* Model of go-modules (GOcontroll/flash-module), src/src/main.rs:         *)
(* the module probe (Module::get_module_info) and the firmware upload      *)
(* engine (Module::overwrite_module, Module::cancel_firmware_upload),      *)
(* under Spec; the choice of the firmware (Module::update_module), under   *)
(* SelectSpec; and the driver (main, get_modules, save_modules,            *)
(* update_one_module, update_all_modules), under MainSpec.                 *)
(*                                                                         *)
(* Buffers are sequences of bytes.  The source indexes from 0, TLA+ from   *)
(* 1: At(buf, i) and Put(buf, i, v) take the source's index.               *)
(* Text is a sequence of one-character strings.                            *)
(***************************************************************************)
EXTENDS Integers, Sequences, FiniteSets, TLC

VARIABLES
    pc,                      \* position of the single driver task
    result,                  \* what the operation returned ("none" while running)
    overflow_checks,         \* build profile: TRUE = integer overflow panics
    firmware,                \* Module.firmware (7 bytes)
    manufacturer,            \* Module.manufacturer
    qr_front,                \* Module.qr_front
    qr_back,                 \* Module.qr_back
    new_firmware,            \* the FirmwareVersion handed to overwrite_module
    lines,                   \* the records of the firmware file
    line_number,
    firmware_line_check,
    message_type,
    firmware_error_counter,
    tx_buf,                  \* [u8; BOOTMESSAGE_LENGTH+1] of overwrite_module
    tx_buf_escape,           \* [u8; BOOTMESSAGE_LENGTH_CHECK]
    rx_buf_escape,           \* [u8; BOOTMESSAGE_LENGTH_CHECK]
    wire,                    \* the last buffer handed to spidev.transfer
    hist,                    \* the last two exchanges of the upload loop
    n_erase,                 \* transfers of an opcode-29 frame so far
    n_data,                  \* transfers of an opcode-39 frame so far (saturating)
    n_cancel,                \* transfers of an opcode-19 frame so far
    erase_ok,                \* the transfer of the erase frame returned Ok
    run_invalid,             \* replies judged invalid in a row (saturating)
    escape_fails,            \* long probes failed in a row, every resend of the
                             \* last record in between acknowledged (saturating)
    trace                    \* the frames of overwrite_module so far, kept while
                             \* every transfer returned the reply the protocol
                             \* asks for, but for one slip: one acknowledgement
                             \* with a bad checksum on a data exchange, or one
                             \* long probe answered without the marker
VARIABLES
    ledger                   \* the lines handed to a transfer in an opcode-39
                             \* frame so far, and those of them whose
                             \* acknowledgement was accepted afterwards

\* the state of the driver around the upload engine
VARIABLES
    firmwares,               \* the FirmwareVersions found in /usr/module-firmware
    index,                   \* the firmware update_module chose (NoIndex: none)
    runs,                    \* calls of update_module so far
    controller,              \* the ControllerTypes of main
    services,                \* the services main found running and stopped
    command,                 \* the CommandArg of main
    probe,                   \* the probe task of get_modules, for each slot
    completed,               \* tasks that have finished and are not yet joined
    joined,                  \* tasks joined so far
    join_bound,              \* the number of rounds of the join loop
    modules,                 \* the Vec<Module> of get_modules / of main
    held,                    \* for each slot, the Modules (spidev and interrupt
                             \* line) that exist for it
    rerequest,               \* a slot was opened while a Module for it existed
    inventory,               \* the file modules.txt
    before,                  \* modules.txt as the last save_modules found it
    saved,                   \* the list the last save_modules was given
    module,                  \* the Module that is updated or overwritten
    upload,                  \* the upload task of update_all_modules, per slot
    upload_results,          \* the results update_all_modules has joined
    call_result,             \* what update_module or overwrite_module returned
    exit_code,               \* how the process ended ("running" before)
    restarted,               \* the services started again at the end
    saves,                   \* calls of save_modules that wrote the file
    fault,                   \* the function that panicked ("none" if none)
    filename,                \* a file name: of as_filename, or given to from_filename
    parse_result             \* what from_filename returned

upload_vars == <<pc, result, overflow_checks, firmware, manufacturer, qr_front, qr_back,
                 new_firmware, lines, line_number, firmware_line_check, message_type,
                 firmware_error_counter, tx_buf, tx_buf_escape, rx_buf_escape,
                 wire, hist, n_erase, n_data, n_cancel, erase_ok, run_invalid,
                 escape_fails, trace, ledger>>

main_vars == <<controller, services, command, probe, completed, joined, join_bound,
               modules, held,
               rerequest, inventory, before, saved, module, upload, upload_results,
               call_result, exit_code, restarted, saves, fault>>

filename_vars == <<filename, parse_result>>

driver_vars == <<firmwares, index, runs, main_vars, filename_vars>>

\* what main leaves alone of the upload engine
upload_vars_but_pc ==
    <<result, overflow_checks, firmware, manufacturer, qr_front, qr_back,
      new_firmware, lines, line_number, firmware_line_check, message_type,
      firmware_error_counter, tx_buf, tx_buf_escape, rx_buf_escape,
      wire, hist, n_erase, n_data, n_cancel, erase_ok, run_invalid, escape_fails,
      trace, ledger>>

vars == <<upload_vars, driver_vars>>

---------------------------------------------------------------------------
(* Constants of the program *)

BOOTMESSAGE_LENGTH == 46

BOOTMESSAGE_LENGTH_CHECK == 61

\* usize::MAX, the "first message" mark of firmware_line_check.  Only its being
\* larger than every u16 and every record index is used; the value is the
\* largest integer of the model checker.
USIZE_MAX == 2147483647

\* the retry budget: `firmware_error_counter > 10`
MAX_ERRORS == 10

\* the value of rx_buf_escape[6] that marks a reply of the running firmware
FIRMWARE_MARKER == 20

DUMMY_MESSAGE == <<0, 0, 0, 0, 0>>

---------------------------------------------------------------------------
(* Bounds of the model *)

\* replies of the bootloader carry a line field in 0..MaxAckLine
MaxAckLine == 4

\* the counter of opcode-39 transfers stops counting here
MaxCount == 3

---------------------------------------------------------------------------
(* Bytes and buffers *)

Byte == 0..255

At(buf, i) == buf[i + 1]

Put(buf, i, v) == [buf EXCEPT ![i + 1] = v]

Zeros(n) == [i \in 1..n |-> 0]

RECURSIVE WrappingSum(_, _)
WrappingSum(message, length) ==
    IF length = 0 THEN 0
    ELSE (WrappingSum(message, length - 1) + message[length]) % 256

\* calculate_checksum: message.get(0..length).unwrap() fails when the slice
\* does not fit the buffer.
checksum_panics(message, length) == length > Len(message)

calculate_checksum(message, length) == WrappingSum(message, length)

\* u16::from_be_bytes(rx[6..8]) as usize
from_be_bytes16(buf) == At(buf, 6) * 256 + At(buf, 7)

RECURSIVE from_be_bytes(_)
from_be_bytes(bytes) ==
    IF bytes = <<>> THEN 0
    ELSE from_be_bytes(SubSeq(bytes, 1, Len(bytes) - 1)) * 256 + bytes[Len(bytes)]

---------------------------------------------------------------------------
(* Text: str::split, str::get, u8::from_str_radix *)

NL == "\n"

\* the records from position `start` on: up to the next newline, then the rest
RECURSIVE SplitFrom(_, _)
SplitFrom(s, start) ==
    LET newlines == {i \in start..Len(s) : s[i] = NL}
    IN  IF newlines = {}
        THEN <<SubSeq(s, start, Len(s))>>
        ELSE LET j == CHOOSE i \in newlines : \A k \in newlines : i <= k
             IN  <<SubSeq(s, start, j - 1)>> \o SplitFrom(s, j + 1)

\* content.split('\n').collect(): one more record than there are newlines
split(s) == SplitFrom(s, 1)

\* str::get(a..b) is None when the range does not fit the string
get_is_some(s, a, b) == a <= b /\ b <= Len(s)

get(s, a, b) == SubSeq(s, a + 1, b)

HexDigit(c) ==
    CASE c = "0" -> 0  [] c = "1" -> 1  [] c = "2" -> 2  [] c = "3" -> 3
      [] c = "4" -> 4  [] c = "5" -> 5  [] c = "6" -> 6  [] c = "7" -> 7
      [] c = "8" -> 8  [] c = "9" -> 9
      [] c \in {"A", "a"} -> 10  [] c \in {"B", "b"} -> 11
      [] c \in {"C", "c"} -> 12  [] c \in {"D", "d"} -> 13
      [] c \in {"E", "e"} -> 14  [] c \in {"F", "f"} -> 15
      [] OTHER -> -1

RECURSIVE DigitsValue(_)
DigitsValue(s) ==
    IF s = <<>> THEN 0
    ELSE LET hi == DigitsValue(SubSeq(s, 1, Len(s) - 1))
             d  == HexDigit(s[Len(s)])
         IN  IF hi < 0 \/ d < 0 THEN -1 ELSE hi * 16 + d

\* u8::from_str_radix(s, 16): the value, or -1 for Err (empty text, a
\* character that is no hex digit, a value above 255); one leading '+' is
\* accepted.
from_str_radix(s) ==
    LET digits == IF Len(s) > 1 /\ s[1] = "+" THEN Tail(s) ELSE s
        v      == DigitsValue(digits)
    IN  IF digits = <<>> \/ v > 255 THEN -1 ELSE v

\* lines[i].get(a..b).unwrap() parsed with from_str_radix(.., 16).unwrap():
\* the value, or -1 when any of the index, the get or the parse panics
hex_at(ls, i, a, b) ==
    IF i < 0 \/ i >= Len(ls) THEN -1
    ELSE IF ~get_is_some(ls[i + 1], a, b) THEN -1
    ELSE from_str_radix(get(ls[i + 1], a, b))

---------------------------------------------------------------------------
(* Inputs: firmware versions, firmware files, replies of the module *)

\* FirmwareVersion values (h0,h1,h2,h3,s0,s1,s2)
Versions == { <<20, 10, 1, 5, 0, 0, 9>>, <<20, 10, 2, 4, 1, 3, 255>> }

get_software(v) == SubSeq(v, 5, 7)

get_hardware(v) == SubSeq(v, 1, 4)

Rec_S0 == <<"S","0","0","3","0","0","0","0","F","C">>

Rec_S1a == <<"S","1","0","5","1","0","0","0","A","B","C","D","6","2">>

Rec_S1b == <<"S","1","0","4","1","0","1","0","A","2","3","9">>

Rec_S7 == <<"S","7","0","5","0","0","0","0","0","0","0","0","F","A">>

\* a data record with length byte 0x24 = 36: its last byte lands on tx_buf[45]
Rec_S1long == <<"S","1","2","4">> \o [i \in 1..72 |-> IF i % 2 = 0 THEN "7" ELSE "1"]

\* a data record whose length byte is 0x80: line_length*2 does not fit a u8
Rec_S1wide == <<"S","1","8","0","0","0">>

Join(a, b) == a \o <<NL>> \o b

File_plain == Join(Join(Join(Rec_S0, Rec_S1a), Rec_S1b), Rec_S7)

File_long == Join(Join(Rec_S1long, Rec_S1wide), Rec_S7)

File_oneline == Rec_S0

File_oneline_newline == Rec_S0 \o <<NL>>

File_empty == <<>>

\* what fs::read_to_string can give for /usr/module-firmware/<version>.srec:
\* the content of the file; "Err" stands for a read that fails
FirmwareFiles == { File_plain, File_long, File_oneline,
                   File_oneline_newline, File_empty }

\* a 47-byte reply of the bootloader to a short frame: line field, status
\* byte, and a checksum that is right or off by one
ShortReply(line, status, sum_good) ==
    LET body == [i \in 1..(BOOTMESSAGE_LENGTH + 1) |->
                    CASE i = 1 -> 49
                      [] i = 2 -> BOOTMESSAGE_LENGTH - 1
                      [] i = 3 -> 49
                      [] i = 7 -> line \div 256
                      [] i = 8 -> line % 256
                      [] i = 9 -> status
                      [] OTHER -> 0]
        sum  == WrappingSum(body, BOOTMESSAGE_LENGTH - 1)
    IN  Put(body, BOOTMESSAGE_LENGTH - 1, IF sum_good THEN sum ELSE (sum + 1) % 256)

ShortReplies ==
    { ShortReply(l, 1, TRUE) : l \in 0..MaxAckLine }
        \cup { ShortReply(l, 1, FALSE) : l \in 0..MaxAckLine }
        \cup { ShortReply(l, 0, TRUE) : l \in 0..MaxAckLine }

\* a 61-byte reply to the long probe: length byte, marker at offset 6, and a
\* checksum at rx[length] (when that is inside the buffer) right or off by one
LongReply(length, marker, sum_good) ==
    LET body == [i \in 1..BOOTMESSAGE_LENGTH_CHECK |->
                    CASE i = 1 -> 49
                      [] i = 2 -> length
                      [] i = 3 -> 49
                      [] i = 7 -> marker
                      [] OTHER -> 0]
        sum  == WrappingSum(body, IF length <= Len(body) THEN length ELSE Len(body))
    IN  IF length < Len(body)
        THEN Put(body, length, IF sum_good THEN sum ELSE (sum + 1) % 256)
        ELSE body

LongReplies ==
    { LongReply(BOOTMESSAGE_LENGTH - 1, FIRMWARE_MARKER, TRUE),
      LongReply(BOOTMESSAGE_LENGTH - 1, FIRMWARE_MARKER, FALSE),
      LongReply(BOOTMESSAGE_LENGTH - 1, 9, TRUE),
      LongReply(BOOTMESSAGE_LENGTH_CHECK - 1, FIRMWARE_MARKER, TRUE),
      LongReply(BOOTMESSAGE_LENGTH_CHECK, FIRMWARE_MARKER, TRUE),
      LongReply(200, FIRMWARE_MARKER, TRUE) }

\* a 47-byte identity reply: opcode bytes, firmware version at 6..13,
\* manufacturer, front and rear QR code as big-endian u32
IdentityReply(b0, b2, version, sum_good) ==
    LET body == [i \in 1..(BOOTMESSAGE_LENGTH + 1) |->
                    CASE i = 1 -> b0
                      [] i = 2 -> BOOTMESSAGE_LENGTH - 1
                      [] i = 3 -> b2
                      [] i \in 7..13 -> version[i - 6]
                      [] i \in 14..17 -> i
                      [] i \in 18..21 -> 2 * i
                      [] i \in 22..25 -> 3 * i
                      [] OTHER -> 0]
        sum  == WrappingSum(body, BOOTMESSAGE_LENGTH - 1)
    IN  Put(body, BOOTMESSAGE_LENGTH - 1, IF sum_good THEN sum ELSE (sum + 1) % 256)

IdentityReplies ==
    { IdentityReply(9, 9, <<20, 10, 1, 5, 0, 0, 8>>, TRUE),
      IdentityReply(9, 0, <<20, 10, 1, 5, 0, 0, 8>>, TRUE),
      IdentityReply(0, 0, <<20, 10, 1, 5, 0, 0, 8>>, TRUE),
      IdentityReply(9, 9, <<20, 10, 1, 5, 0, 0, 8>>, FALSE) }

---------------------------------------------------------------------------
(* Frames the host builds *)

\* tx[0] = op; tx[1] = (BOOTMESSAGE_LENGTH-1) as u8; tx[2] = op
Header(buf, op) == Put(Put(Put(buf, 0, op), 1, BOOTMESSAGE_LENGTH - 1), 2, op)

\* tx[BOOTMESSAGE_LENGTH-1] = calculate_checksum(&tx, BOOTMESSAGE_LENGTH-1)
Seal(buf) ==
    Put(buf, BOOTMESSAGE_LENGTH - 1, calculate_checksum(buf, BOOTMESSAGE_LENGTH - 1))

\* get_module_info: the identity request, built in a fresh buffer
identity_frame == Seal(Header(Zeros(BOOTMESSAGE_LENGTH + 1), 9))

\* fault: the software version is written one byte early
erase_frame_shifted(buf, version) ==
    LET sw == get_software(version)
    IN  Seal(Put(Put(Put(Header(buf, 29), 5, sw[1]), 6, sw[2]), 7, sw[3]))

\* overwrite_module: wipe the old firmware and set the new software version
erase_frame(buf, version) ==
    LET sw == get_software(version)
    IN  Seal(Put(Put(Put(Header(buf, 29), 6, sw[1]), 7, sw[2]), 8, sw[3]))

\* fault: the checksum of the reused buffer is not computed again
status_frame_unsealed(buf) == Header(buf, 49)

\* overwrite_module: the dummy message that collects the previous feedback
status_frame(buf) == Seal(Header(buf, 49))

\* overwrite_module: the probe in the 61-byte buffer
escape_frame(buf) == Seal(Header(buf, 49))

\* cancel_firmware_upload
cancel_frame(buf) == Seal(Header(buf, 19))

\* ((line_length*2) + 2) as usize, computed in u8: -1 when the build panics on
\* overflow, the wrapped value when it does not
copy_bound(line_length, checks) ==
    LET twice == line_length * 2
        w     == twice % 256
    IN  IF twice > 255 /\ checks THEN -1
        ELSE IF w + 2 > 255 /\ checks THEN -1
        ELSE (w + 2) % 256

\* the copy loop and the one copy after it; ok = FALSE when a get, a parse or
\* an index into tx_buf panics
RECURSIVE copy_record(_, _, _, _, _)
copy_record(buf, line, send_buffer_pointer, message_pointer, bound) ==
    LET some == get_is_some(line, message_pointer, message_pointer + 2)
        v    == IF some THEN from_str_radix(get(line, message_pointer, message_pointer + 2))
                ELSE -1
    IN  IF v < 0 \/ send_buffer_pointer >= Len(buf)
        THEN [ok |-> FALSE, tx |-> buf]
        ELSE IF message_pointer < bound
        THEN copy_record(Put(buf, send_buffer_pointer, v), line,
                         send_buffer_pointer + 1, message_pointer + 2, bound)
        ELSE [ok |-> TRUE, tx |-> Put(buf, send_buffer_pointer, v)]

\* the index of tx_buf the one copy after the loop writes to, the highest
\* the copy reaches: send_buffer_pointer goes up by one with message_pointer
\* going up by two while it is below the bound
RECURSIVE last_written(_, _, _)
last_written(send_buffer_pointer, message_pointer, bound) ==
    IF message_pointer < bound
    THEN last_written(send_buffer_pointer + 1, message_pointer + 2, bound)
    ELSE send_buffer_pointer

\* fault: the line number is written low byte first
data_frame_little_endian(buf, line, ln, mtype, line_length, checks) ==
    LET head  == Put(Put(Put(Header(buf, 39), 6, ln % 256), 7, (ln \div 256) % 256),
                     8, mtype)
        bound == copy_bound(line_length, checks)
        body  == copy_record(head, line, 9, 2, bound)
    IN  IF bound < 0 THEN [ok |-> FALSE, tx |-> head]
        ELSE IF ~body.ok THEN body
        ELSE [ok |-> TRUE, tx |-> Seal(body.tx)]

\* overwrite_module: prepare firmware message
data_frame(buf, line, ln, mtype, line_length, checks) ==
    LET head  == Put(Put(Put(Header(buf, 39), 6, (ln \div 256) % 256), 7, ln % 256),
                     8, mtype)
        bound == copy_bound(line_length, checks)
        body  == copy_record(head, line, 9, 2, bound)
    IN  IF bound < 0 THEN [ok |-> FALSE, tx |-> head]
        ELSE IF ~body.ok THEN body
        ELSE [ok |-> TRUE, tx |-> Seal(body.tx)]

---------------------------------------------------------------------------
(* Tests the host applies to replies *)

\* get_module_info: the reply is refused
identity_invalid(rx) ==
    \/ At(rx, BOOTMESSAGE_LENGTH - 1) # calculate_checksum(rx, BOOTMESSAGE_LENGTH - 1)
    \/ (At(rx, 0) # 9 /\ At(rx, 2) # 9)

\* overwrite_module: checksum correct, line field = firmware_line_check, rx[8] = 1
ack_ok(rx, check) ==
    /\ At(rx, BOOTMESSAGE_LENGTH - 1) = calculate_checksum(rx, BOOTMESSAGE_LENGTH - 1)
    /\ check = from_be_bytes16(rx)
    /\ At(rx, 8) = 1

\* overwrite_module: indexing rx_buf_escape[rx_buf_escape[1]] or slicing
\* 0..rx_buf_escape[1] leaves the buffer
escape_panics(rx) ==
    \/ At(rx, 1) >= Len(rx)
    \/ checksum_panics(rx, At(rx, 1))

\* fault: the marker alone decides, the checksum of the reply is not looked at
escape_ok_marker_only(rx) == At(rx, 6) = FIRMWARE_MARKER

\* overwrite_module: the reply came from the firmware
escape_ok(rx) ==
    /\ At(rx, At(rx, 1)) = calculate_checksum(rx, At(rx, 1))
    /\ At(rx, 6) = FIRMWARE_MARKER

\* `firmware_error_counter > 10`
budget_exceeded(count) == count > MAX_ERRORS

---------------------------------------------------------------------------
(* What is recorded of an exchange of the upload loop: which exchange it was,
   the length and opcode of the frame, the type of the record it carried, and
   whether the transfer returned a reply that passes the protocol's test for
   it (read off the bytes of the reply) *)

NoExchange == [kind |-> "none", len |-> 0, op |-> 0, mtype |-> 0, good |-> FALSE]

NoReply == <<>>

\* what a transfer can give: an error, or one of the replies
Transfers(replies) == {NoReply} \cup replies

\* ACK(rx, c): checksum over rx[0..45] at rx[45], big-endian line c at rx[6..8],
\* rx[8] = 1
IsAck(rx, c) ==
    /\ rx # NoReply
    /\ rx[BOOTMESSAGE_LENGTH] = WrappingSum(rx, BOOTMESSAGE_LENGTH - 1)
    /\ rx[7] * 256 + rx[8] = c
    /\ rx[9] = 1

\* the reply of the running firmware: rx[1] inside the buffer, the checksum
\* over rx[0..rx[1]] at rx[rx[1]], and the marker at rx[6]
IsFirmwareReply(rx) ==
    /\ rx # NoReply
    /\ rx[2] < Len(rx)
    /\ rx[rx[2] + 1] = WrappingSum(rx, rx[2])
    /\ rx[7] = FIRMWARE_MARKER

Exchange(kind, frame, mtype, good) ==
    [kind |-> kind, len |-> Len(frame), op |-> At(frame, 0), mtype |-> mtype,
     good |-> good]

Record(x) == <<hist[2], x>>

Bump(n, cap) == IF n < cap THEN n + 1 ELSE n

---------------------------------------------------------------------------
(* The state after construction *)

\* Module::new and the locals of overwrite_module
upload_idle ==
    /\ result = "none"
    /\ manufacturer = 0
    /\ qr_front = 0
    /\ qr_back = 0
    /\ new_firmware = Zeros(7)
    /\ lines = <<>>
    /\ line_number = 0
    /\ firmware_line_check = USIZE_MAX
    /\ message_type = 0
    /\ firmware_error_counter = 0
    /\ tx_buf = Zeros(BOOTMESSAGE_LENGTH + 1)
    /\ tx_buf_escape = Zeros(BOOTMESSAGE_LENGTH_CHECK)
    /\ rx_buf_escape = Zeros(BOOTMESSAGE_LENGTH_CHECK)
    /\ wire = [kind |-> "none", bytes |-> <<>>, io |-> FALSE]
    /\ hist = <<NoExchange, NoExchange>>
    /\ n_erase = 0
    /\ n_data = 0
    /\ n_cancel = 0
    /\ erase_ok = FALSE
    /\ run_invalid = 0
    /\ escape_fails = 0
    /\ trace = [clean |-> TRUE, slip |-> "none", at |-> 0, frames |-> <<>>]
    /\ ledger = [sent |-> {}, acked |-> {}]

\* Option::None of the chosen index
NoIndex == -1

\* main before it has done anything
main_idle ==
    /\ controller = 0
    /\ services = {}
    /\ command = "none"
    /\ probe = <<>>
    /\ completed = <<>>
    /\ joined = 0
    /\ join_bound = 0
    /\ modules = <<>>
    /\ held = <<>>
    /\ rerequest = FALSE
    /\ inventory = [exists |-> FALSE, text |-> <<>>]
    /\ before = [exists |-> FALSE, text |-> <<>>]
    /\ saved = <<>>
    /\ module = [slot |-> 0]
    /\ upload = <<>>
    /\ upload_results = <<>>
    /\ call_result = "none"
    /\ exit_code = "running"
    /\ restarted = {}
    /\ saves = 0
    /\ fault = "none"
    /\ filename = <<>>
    /\ parse_result = [some |-> FALSE, firmware |-> <<>>]

\* the driver before it has done anything
driver_idle ==
    /\ firmwares = <<>>
    /\ index = NoIndex
    /\ runs = 0
    /\ main_idle

Init ==
    /\ pc = "new"
    /\ firmware = Zeros(7)
    /\ overflow_checks \in BOOLEAN
    /\ upload_idle
    /\ driver_idle

Sent(bytes, io) == [kind |-> "frame", bytes |-> bytes, io |-> io]

module_vars == <<firmware, manufacturer, qr_front, qr_back>>

engine_vars == <<new_firmware, lines, line_number, firmware_line_check, message_type,
                 firmware_error_counter, tx_buf, tx_buf_escape, rx_buf_escape>>

ghost_vars == <<hist, n_erase, n_data, n_cancel, erase_ok, run_invalid, escape_fails,
                trace, ledger>>

\* what is kept of a frame: opcode, length, and the line field of a data frame
Frame(bytes) ==
    [op |-> At(bytes, 0), len |-> Len(bytes),
     line |-> IF At(bytes, 0) = 39 THEN At(bytes, 6) * 256 + At(bytes, 7) ELSE 0]

\* the trace once a transfer failed or returned another reply
Dirty == [clean |-> FALSE, slip |-> "none", at |-> 0, frames |-> <<>>]

\* the frame goes out; `good`: the transfer returned the reply asked for;
\* `kind`: the slip the reply is when it is the first one ("none": it is
\* not one), `line`: the line the reply was to confirm
NoteSlip(bytes, good, kind, line) ==
    trace' = IF trace.clean /\ good
             THEN [trace EXCEPT !.frames = Append(trace.frames, Frame(bytes))]
             ELSE IF trace.clean /\ trace.slip = "none" /\ kind # "none"
             THEN [clean |-> TRUE, slip |-> kind, at |-> line,
                   frames |-> Append(trace.frames, Frame(bytes))]
             ELSE Dirty

Note(bytes, good) == NoteSlip(bytes, good, "none", 0)

\* the ledger after an exchange: `line` went out in an opcode-39 frame (-1:
\* none did), and the reply was accepted as the acknowledgement of
\* firmware_line_check
Entered(line, accepted) ==
    [sent  |-> IF line >= 0 THEN ledger.sent \cup {line} ELSE ledger.sent,
     acked |-> IF accepted
               THEN ledger.acked \cup ({firmware_line_check} \cap ledger.sent)
               ELSE ledger.acked]

\* the acknowledgement of line c with a checksum that is off
IsAckBadSum(rx, c) ==
    /\ rx # NoReply
    /\ rx[BOOTMESSAGE_LENGTH] # WrappingSum(rx, BOOTMESSAGE_LENGTH - 1)
    /\ rx[7] * 256 + rx[8] = c
    /\ rx[9] = 1

\* a reply to the long probe that is well formed and has no marker
IsBootloaderReply(rx) ==
    /\ rx # NoReply
    /\ rx[2] < Len(rx)
    /\ rx[rx[2] + 1] = WrappingSum(rx, rx[2])
    /\ rx[7] # FIRMWARE_MARKER

\* the operation ends with `res`
Return(res) == pc' = "done" /\ result' = res

---------------------------------------------------------------------------
(* Module::get_module_info *)

GetModuleInfo ==
    /\ pc = "new"
    /\ \E dummy_io \in BOOLEAN, rx \in Transfers(IdentityReplies) :
          IF ~dummy_io
          THEN /\ wire' = [kind |-> "dummy", bytes |-> DUMMY_MESSAGE, io |-> FALSE]
               /\ Return("vacant")
               /\ UNCHANGED module_vars
          ELSE /\ wire' = Sent(identity_frame, rx # NoReply)
               /\ IF rx = NoReply \/ identity_invalid(rx)
                  THEN Return("vacant") /\ UNCHANGED module_vars
                  ELSE /\ firmware' = SubSeq(rx, 7, 13)
                       /\ manufacturer' = from_be_bytes(SubSeq(rx, 14, 17))
                       /\ qr_front' = from_be_bytes(SubSeq(rx, 18, 21))
                       /\ qr_back' = from_be_bytes(SubSeq(rx, 22, 25))
                       /\ pc' = "ready"
                       /\ result' = "none"
    /\ UNCHANGED <<driver_vars, overflow_checks, engine_vars, ghost_vars>>

---------------------------------------------------------------------------
(* Module::overwrite_module, up to the upload loop *)

\* fault: only a file without any record is refused
too_few_empty_only(ls) == Len(ls) < 1

\* `lines.len() <= 1`: firmware file corrupt
too_few(ls) == Len(ls) <= 1

OverwriteStart ==
    /\ pc = "ready"
    /\ \E version \in Versions, read_ok \in BOOLEAN, content \in FirmwareFiles,
          io \in BOOLEAN :
          /\ new_firmware' = version
          /\ IF ~read_ok
             THEN /\ Return("FirmwareUntouched")
                  /\ UNCHANGED <<lines, tx_buf, wire, n_erase, erase_ok, trace, ledger>>
             ELSE /\ lines' = split(content)
                  /\ IF too_few(lines')
                     THEN /\ Return("FirmwareUntouched")
                          /\ UNCHANGED <<tx_buf, wire, n_erase, erase_ok, trace, ledger>>
                     ELSE /\ tx_buf' = erase_frame(tx_buf, version)
                          /\ wire' = Sent(tx_buf', io)
                          /\ Note(tx_buf', io)
                          /\ UNCHANGED ledger
                          /\ n_erase' = n_erase + 1
                          /\ erase_ok' = io
                          /\ IF io
                             THEN pc' = "loop" /\ result' = "none"
                             ELSE Return("FirmwareUntouched")
    /\ UNCHANGED <<driver_vars, overflow_checks, module_vars, line_number, firmware_line_check,
                   message_type, firmware_error_counter, tx_buf_escape, rx_buf_escape,
                   hist, n_data, n_cancel, run_invalid, escape_fails>>

---------------------------------------------------------------------------
(* Module::overwrite_module, the upload loop.  One iteration is up to three
   exchanges; each exchange is one action, and pc tells where the iteration
   stands: "loop" at the `while` test, "send" after an accepted status probe,
   "escape" after an accepted reply to a frame that carried a type-7 record. *)

\* message_type and line_length as the iteration reads them; -1 when the
\* index, the get or the parse panics
read_type == hex_at(lines, line_number, 1, 2)

read_length == hex_at(lines, line_number, 2, 4)

\* fault: the last record is sent without the status probe before it
guard_needed_never(mtype) == FALSE

\* fault: the status probe goes before every send of the last record
guard_needed_always(mtype) == mtype = 7

\* `message_type == 7 && firmware_line_check != line_number`
guard_needed(mtype) == mtype = 7 /\ firmware_line_check # line_number

\* fault: an accepted acknowledgement leaves firmware_line_check at the line
\* it confirmed
accepted_cursors_keep_check(odd) ==
    [line |-> IF odd THEN firmware_line_check ELSE line_number,
     check |-> firmware_line_check]

\* fault: an accepted acknowledgement moves line_number one record too far
accepted_cursors_skipping(odd) ==
    IF odd THEN [line |-> firmware_line_check + 1, check |-> line_number]
    ELSE [line |-> line_number + 1, check |-> line_number]

\* the cursors after an accepted acknowledgement: swapped when the error
\* counter is odd, else firmware_line_check = line_number
accepted_cursors(odd) ==
    IF odd THEN [line |-> firmware_line_check, check |-> line_number]
    ELSE [line |-> line_number, check |-> line_number]

\* fault: the error path leaves the cursors where they are
sad_path_unswapped ==
    /\ UNCHANGED <<line_number, firmware_line_check>>
    /\ message_type' = 0
    /\ firmware_error_counter' = firmware_error_counter + 1
    /\ escape_fails' = 0

\* the error path of every exchange: swap the cursors, forget the type, count
sad_path ==
    /\ line_number' = firmware_line_check
    /\ firmware_line_check' = line_number
    /\ message_type' = 0
    /\ firmware_error_counter' = firmware_error_counter + 1
    /\ escape_fails' = 0

\* fault: the failed status probe falls through to the firmware message
probe_failed_no_continue ==
    /\ sad_path
    /\ pc' = "send"
    /\ result' = "none"

\* the error path of the status probe: `continue`
probe_failed ==
    /\ sad_path
    /\ pc' = "loop"
    /\ result' = "none"

\* fault: the exhausted budget is reported as FirmwareUntouched
data_failed_untouched ==
    /\ sad_path
    /\ IF budget_exceeded(firmware_error_counter')
       THEN Return("FirmwareUntouched")
       ELSE pc' = "loop" /\ result' = "none"

\* the error path of the data exchange: give up once the budget is exceeded
data_failed ==
    /\ sad_path
    /\ IF budget_exceeded(firmware_error_counter')
       THEN Return("FirmwareCorrupted")
       ELSE pc' = "loop" /\ result' = "none"

\* lines[line_number] cannot be read as a record: the unwrap (or the index) panics
IterationPanics ==
    /\ pc = "loop"
    /\ message_type # 7
    /\ (read_type < 0 \/ read_length < 0)
    /\ Return("panic")
    /\ UNCHANGED <<driver_vars, overflow_checks, module_vars, engine_vars, wire, ghost_vars>>

\* the status probe that goes before the first send of the last record
StatusProbe ==
    /\ pc = "loop"
    /\ message_type # 7
    /\ read_type >= 0 /\ read_length >= 0
    /\ guard_needed(read_type)
    /\ \E rx \in Transfers(ShortReplies) :
          /\ tx_buf' = status_frame(tx_buf)
          /\ wire' = Sent(tx_buf', rx # NoReply)
          /\ hist' = Record(Exchange("status", tx_buf', 0,
                                     IsAck(rx, firmware_line_check)))
          /\ Note(tx_buf', IsAck(rx, firmware_line_check))
          /\ ledger' = Entered(-1, rx # NoReply /\ ack_ok(rx, firmware_line_check))
          /\ IF rx # NoReply /\ ack_ok(rx, firmware_line_check)
             THEN /\ message_type' = read_type
                  /\ pc' = "send"
                  /\ result' = "none"
                  /\ run_invalid' = 0
                  /\ UNCHANGED <<line_number, firmware_line_check, firmware_error_counter,
                                 escape_fails>>
             ELSE /\ probe_failed
                  /\ run_invalid' = IF rx # NoReply THEN Bump(run_invalid, MAX_ERRORS + 1)
                                    ELSE 0
    /\ UNCHANGED <<driver_vars, overflow_checks, module_vars, new_firmware, lines, tx_buf_escape,
                   rx_buf_escape, n_erase, n_data, n_cancel, erase_ok>>

\* the firmware message and what its reply leads to
SendData ==
    /\ \/ /\ pc = "loop"
          /\ message_type # 7
          /\ read_type >= 0 /\ read_length >= 0
          /\ ~guard_needed(read_type)
       \/ pc = "send"
    /\ LET mtype == read_type
           frame == data_frame(tx_buf, lines[line_number + 1], line_number, mtype,
                               read_length, overflow_checks)
       IN  IF ~frame.ok
           THEN /\ Return("panic")
                /\ UNCHANGED <<line_number, firmware_line_check, message_type,
                               firmware_error_counter, tx_buf, wire, hist, n_data,
                               run_invalid, escape_fails, trace, ledger>>
           ELSE \E rx \in Transfers(ShortReplies) :
                /\ tx_buf' = frame.tx
                /\ wire' = Sent(tx_buf', rx # NoReply)
                /\ n_data' = Bump(n_data, MaxCount)
                /\ hist' = Record(Exchange("data", tx_buf', mtype,
                                           IsAck(rx, firmware_line_check)))
                /\ NoteSlip(tx_buf',
                            rx # NoReply /\ (firmware_line_check = USIZE_MAX
                                             \/ IsAck(rx, firmware_line_check)),
                            IF IsAckBadSum(rx, firmware_line_check) THEN "data" ELSE "none",
                            firmware_line_check)
                /\ ledger' = Entered(line_number,
                                     /\ rx # NoReply
                                     /\ firmware_line_check # USIZE_MAX
                                     /\ ack_ok(rx, firmware_line_check))
                /\ IF rx = NoReply
                   THEN data_failed /\ run_invalid' = 0
                   ELSE IF firmware_line_check = USIZE_MAX
                   THEN /\ line_number' = line_number + 1
                        /\ firmware_line_check' = 0
                        /\ message_type' = mtype
                        /\ pc' = "loop"
                        /\ result' = "none"
                        /\ run_invalid' = 0
                        /\ UNCHANGED <<firmware_error_counter, escape_fails>>
                   ELSE IF ack_ok(rx, firmware_line_check)
                   THEN LET cur == accepted_cursors(firmware_error_counter % 2 = 1)
                            ln  == cur.line
                        IN  /\ firmware_line_check' = cur.check
                            /\ run_invalid' = 0
                            /\ UNCHANGED escape_fails
                            /\ result' = "none"
                            /\ IF mtype = 7
                               THEN /\ line_number' = ln
                                    /\ message_type' = mtype
                                    /\ pc' = "escape"
                                    /\ UNCHANGED firmware_error_counter
                               ELSE /\ line_number' = ln + 1
                                    /\ firmware_error_counter' = 0
                                    /\ message_type' = mtype
                                    /\ pc' = "loop"
                   ELSE /\ data_failed
                        /\ run_invalid' = Bump(run_invalid, MAX_ERRORS + 1)
    /\ UNCHANGED <<driver_vars, overflow_checks, module_vars, new_firmware, lines, tx_buf_escape,
                   rx_buf_escape, n_erase, n_cancel, erase_ok>>

\* the probe in the long buffer, sent after the last record was acknowledged;
\* the result of the transfer is dropped and rx_buf_escape is read as it is
EscapeProbe ==
    /\ pc = "escape"
    /\ \E rx \in Transfers(LongReplies) :
          /\ tx_buf_escape' = escape_frame(tx_buf_escape)
          /\ wire' = Sent(tx_buf_escape', rx # NoReply)
          /\ rx_buf_escape' = IF rx # NoReply THEN rx ELSE rx_buf_escape
          /\ hist' = Record(Exchange("escape", tx_buf_escape', 0, IsFirmwareReply(rx)))
          /\ NoteSlip(tx_buf_escape', IsFirmwareReply(rx),
                      IF IsBootloaderReply(rx) THEN "escape" ELSE "none", line_number)
          /\ UNCHANGED ledger
          /\ IF escape_panics(rx_buf_escape')
             THEN Return("panic") /\ UNCHANGED <<message_type, escape_fails>>
             ELSE /\ pc' = "loop"
                  /\ result' = "none"
                  /\ IF escape_ok(rx_buf_escape')
                     THEN UNCHANGED <<message_type, escape_fails>>
                     ELSE /\ message_type' = 0
                          /\ escape_fails' = Bump(escape_fails, MAX_ERRORS + 1)
    /\ UNCHANGED <<driver_vars, overflow_checks, module_vars, new_firmware, lines, line_number,
                   firmware_line_check, firmware_error_counter, tx_buf,
                   n_erase, n_data, n_cancel, erase_ok, run_invalid>>

\* fault: a failed write of the cancel frame fails the upload
CancelFirmwareUpload_checked ==
    /\ pc = "loop"
    /\ message_type = 7
    /\ \E io \in BOOLEAN :
          /\ tx_buf' = cancel_frame(tx_buf)
          /\ wire' = Sent(tx_buf', io)
          /\ Note(tx_buf', io)
          /\ UNCHANGED ledger
          /\ Return(IF io THEN "Ok" ELSE "FirmwareCorrupted")
    /\ n_cancel' = n_cancel + 1
    /\ UNCHANGED <<driver_vars, overflow_checks, module_vars, new_firmware, lines, line_number,
                   firmware_line_check, message_type, firmware_error_counter,
                   tx_buf_escape, rx_buf_escape, hist, n_erase, n_data, erase_ok,
                   run_invalid, escape_fails>>

\* the `while` test fails: cancel_firmware_upload, then Ok(())
CancelFirmwareUpload ==
    /\ pc = "loop"
    /\ message_type = 7
    /\ \E io \in BOOLEAN :
          /\ tx_buf' = cancel_frame(tx_buf)
          /\ wire' = Sent(tx_buf', io)
          /\ Note(tx_buf', TRUE)
          /\ UNCHANGED ledger
    /\ n_cancel' = n_cancel + 1
    /\ Return("Ok")
    /\ UNCHANGED <<driver_vars, overflow_checks, module_vars, new_firmware, lines, line_number,
                   firmware_line_check, message_type, firmware_error_counter,
                   tx_buf_escape, rx_buf_escape, hist, n_erase, n_data, erase_ok,
                   run_invalid, escape_fails>>

Next ==
    \/ GetModuleInfo
    \/ OverwriteStart
    \/ IterationPanics
    \/ StatusProbe
    \/ SendData
    \/ EscapeProbe
    \/ CancelFirmwareUpload

Spec == Init /\ [][Next]_vars

TypeOK ==
    /\ pc \in {"new", "ready", "loop", "send", "escape", "done"}
    /\ result \in {"none", "vacant", "Ok", "FirmwareUntouched", "FirmwareCorrupted", "panic"}
    /\ tx_buf \in [1..(BOOTMESSAGE_LENGTH + 1) -> Byte]
    /\ tx_buf_escape \in [1..BOOTMESSAGE_LENGTH_CHECK -> Byte]
    /\ rx_buf_escape \in [1..BOOTMESSAGE_LENGTH_CHECK -> Byte]
    /\ firmware_error_counter \in 0..255
    /\ message_type \in Byte

---------------------------------------------------------------------------
(* Properties of the upload engine *)

Ended == pc = "done" /\ result \in {"Ok", "FirmwareUntouched", "FirmwareCorrupted", "panic"}

Failed == result \in {"FirmwareUntouched", "FirmwareCorrupted"}

OnWire(op) == wire.kind = "frame" /\ At(wire.bytes, 0) = op

LineField(bytes) == At(bytes, 6) * 256 + At(bytes, 7)

\* C1: overwrite_module returns Ok only if the last exchange of the upload
\* loop was the probe in the 61-byte buffer (opcode 49), sent directly after
\* an accepted acknowledgement on the exchange that carried a type-7 record,
\* and the reply to that probe had the right checksum over rx[0..rx[1]] and
\* rx[6] = 20.
C1_OkOnlyAfterFirmwareReply ==
    result = "Ok" =>
        /\ hist[2] = [kind |-> "escape", len |-> BOOTMESSAGE_LENGTH_CHECK, op |-> 49,
                      mtype |-> 0, good |-> TRUE]
        /\ hist[1] = [kind |-> "data", len |-> BOOTMESSAGE_LENGTH + 1, op |-> 39,
                      mtype |-> 7, good |-> TRUE]

C1_Witness ==
    /\ result = "Ok"
    /\ hist[2].kind = "escape"
    /\ firmware_error_counter > 0

C3_NoIterationOverBudget ==
    pc \in {"loop", "send", "escape"} => firmware_error_counter <= MAX_ERRORS

\* C4 (as claimed): FirmwareCorrupted is returned only with error_count above
\* 10, an accepted acknowledgement on an exchange carrying a non-terminal
\* record leaves error_count at 0, and 11 invalid replies in a row end the
\* upload with FirmwareCorrupted.
C4_ElevenInvalidRepliesFail ==
    /\ result = "FirmwareCorrupted" => firmware_error_counter > MAX_ERRORS
    /\ (hist[2].kind = "data" /\ hist[2].good /\ hist[2].mtype # 7)
          => firmware_error_counter = 0
    /\ run_invalid >= MAX_ERRORS + 1 => result = "FirmwareCorrupted"

\* C5 (as claimed): resends of the terminal record after a failed long probe
\* are bounded by the retry budget: once more long probes have failed in a row
\* (every resend acknowledged) than the budget allows errors, the upload has
\* returned FirmwareCorrupted.
C5_ResendsWithinBudget ==
    escape_fails > MAX_ERRORS => pc = "done" /\ result = "FirmwareCorrupted"

\* C6 (as claimed): the erase frame is sent exactly once per overwrite call,
\* before any opcode-39 frame.
C6_EraseExactlyOnce ==
    /\ Ended => n_erase = 1
    /\ n_data > 0 => n_erase = 1

\* C6 (amended): the erase frame is sent at most once per overwrite call:
\* exactly once, with the new software triple in bytes 6,7,8, in every call
\* whose file was read and split into more than one record, and not at all in
\* a call that fails before; it is sent before any opcode-39 frame.
C6_EraseOnceBeforeData ==
    /\ n_erase <= 1
    /\ (n_data > 0 \/ pc \in {"loop", "send", "escape"}) => n_erase = 1
    /\ (Ended /\ Len(lines) > 1) => n_erase = 1
    /\ (Ended /\ Len(lines) <= 1) => n_erase = 0
    /\ OnWire(29) =>
          /\ n_erase = 1 /\ n_data = 0
          /\ SubSeq(wire.bytes, 7, 9) = get_software(new_firmware)

C6_Witness ==
    /\ result = "Ok"
    /\ n_erase = 1
    /\ n_data = MaxCount

\* C7: no opcode-39 frame is sent with a line_number field that exceeds the
\* number of records of the firmware file, whatever replies and transport
\* errors came before.
C7_LineNumberInFile ==
    OnWire(39) => LineField(wire.bytes) <= Len(lines)

C7_Witness ==
    /\ OnWire(39)
    /\ LineField(wire.bytes) = Len(lines) - 1
    /\ firmware_error_counter > 1
    /\ n_data = MaxCount

\* C8: every frame the host sends (opcode 9, 29, 39, 49 in the 47-byte and in
\* the 61-byte buffer, 19) has tx[1] = BOOTMESSAGE_LENGTH-1 and at
\* tx[BOOTMESSAGE_LENGTH-1] the wrapping sum of tx[0..BOOTMESSAGE_LENGTH-1],
\* also in a buffer that still holds payload bytes of an earlier frame.
C8_FramesSealed ==
    wire.kind = "frame" =>
        /\ At(wire.bytes, 0) \in {9, 29, 39, 49, 19}
        /\ At(wire.bytes, 2) = At(wire.bytes, 0)
        /\ At(wire.bytes, 1) = BOOTMESSAGE_LENGTH - 1
        /\ At(wire.bytes, BOOTMESSAGE_LENGTH - 1)
              = WrappingSum(wire.bytes, BOOTMESSAGE_LENGTH - 1)

C8_Witness ==
    /\ OnWire(49)
    /\ Len(wire.bytes) = BOOTMESSAGE_LENGTH + 1
    /\ At(wire.bytes, 9) # 0
    /\ At(wire.bytes, 12) # 0

C10_CancelOnceOnSuccess ==
    /\ n_cancel <= 1
    /\ result = "Ok" => n_cancel = 1 /\ OnWire(19) /\ pc = "done" /\ n_data > 0
    /\ n_cancel = 1 => result = "Ok"
    /\ OnWire(19) => n_cancel = 1
    /\ (Failed \/ result \in {"panic", "vacant"}) => n_cancel = 0

C10_Witness ==
    /\ result = "Ok"
    /\ OnWire(19)
    /\ ~wire.io

---------------------------------------------------------------------------
(* Module::update_module: the choice of the firmware *)

\* the software version of a module without firmware: [255u8,255,255]
NO_SOFTWARE == <<255, 255, 255>>

\* `<` of slices: lexicographic, a proper prefix is smaller
RECURSIVE slice_lt(_, _)
slice_lt(a, b) ==
    IF b = <<>> THEN FALSE
    ELSE IF a = <<>> THEN TRUE
    ELSE IF Head(a) # Head(b) THEN Head(a) < Head(b)
    ELSE slice_lt(Tail(a), Tail(b))

\* first filter: the hardware of the file is the hardware of the module
hardware_filter(available, own) == get_hardware(available) = get_hardware(own)

\* second filter: newer software, or a module without software; never the
\* software NO_SOFTWARE
software_filter(available, own) ==
    /\ \/ slice_lt(get_software(own), get_software(available))
       \/ get_software(own) = NO_SOFTWARE
    /\ get_software(available) # NO_SOFTWARE

\* fault: the accumulator is replaced when it is NOT smaller
reduce_step_smallest(list, acc, i) ==
    IF acc = NoIndex THEN i
    ELSE IF ~slice_lt(get_software(list[acc + 1]), get_software(list[i + 1])) THEN i
    ELSE acc

\* the closure of reduce: if acc.1 < software { (i, software) } else { acc }
reduce_step(list, acc, i) ==
    IF acc = NoIndex THEN i
    ELSE IF slice_lt(get_software(list[acc + 1]), get_software(list[i + 1])) THEN i
    ELSE acc

\* enumerate, filter, filter, map, reduce over the elements from index i on
RECURSIVE choose_from(_, _, _, _)
choose_from(list, own, i, acc) ==
    IF i >= Len(list) THEN acc
    ELSE IF hardware_filter(list[i + 1], own) /\ software_filter(list[i + 1], own)
         THEN choose_from(list, own, i + 1, reduce_step(list, acc, i))
         ELSE choose_from(list, own, i + 1, acc)

\* the index update_module finds, NoIndex for None
choose_firmware(list, own) == choose_from(list, own, 0, NoIndex)

\* longest list of firmware files
MaxFirmwares == 3

\* most calls of update_module in a row
MaxRuns == 2

HARDWARE_A == <<20, 10, 1, 5>>

HARDWARE_B == <<20, 20, 2, 3>>

\* the firmware files there can be
FileVersions ==
    { HARDWARE_A \o <<0, 0, 9>>, HARDWARE_A \o <<0, 1, 0>>, HARDWARE_A \o <<1, 0, 0>>,
      HARDWARE_A \o NO_SOFTWARE, HARDWARE_B \o <<2, 0, 0>> }

\* the firmware a module can report
ModuleVersions ==
    { HARDWARE_A \o <<0, 0, 9>>, HARDWARE_A \o <<0, 1, 0>>, HARDWARE_A \o <<1, 0, 0>>,
      HARDWARE_A \o NO_SOFTWARE, HARDWARE_B \o <<0, 0, 1>> }

FirmwareLists == UNION { [1..n -> FileVersions] : n \in 0..MaxFirmwares }

UpdateInit ==
    /\ pc = "update"
    /\ firmware \in ModuleVersions
    /\ overflow_checks = FALSE
    /\ upload_idle
    /\ firmwares \in FirmwareLists
    /\ index = NoIndex
    /\ runs = 0
    /\ main_idle

\* update_module up to the call of overwrite_module
UpdateModule ==
    /\ pc = "update"
    /\ index' = choose_firmware(firmwares, firmware)
    /\ runs' = runs + 1
    /\ IF index' = NoIndex
       THEN pc' = "returned" /\ result' = "NoUpdate" /\ UNCHANGED new_firmware
       ELSE pc' = "overwrite" /\ result' = "none" /\ new_firmware' = firmwares[index' + 1]
    /\ UNCHANGED <<firmwares, main_vars, filename_vars, overflow_checks, module_vars, lines,
                   line_number, firmware_line_check, message_type,
                   firmware_error_counter, tx_buf, tx_buf_escape, rx_buf_escape, wire,
                   ghost_vars>>

\* what overwrite_module comes to (its steps are the actions of Spec): the
\* result, and which frames went out
Overwritten(outcome, erased) ==
    /\ n_erase' = IF erased THEN 1 ELSE 0
    /\ erase_ok' = (outcome \in {"Ok", "FirmwareCorrupted", "panic"})
    /\ n_data' = IF outcome \in {"Ok", "FirmwareCorrupted"} THEN 1 ELSE 0
    /\ n_cancel' = IF outcome = "Ok" THEN 1 ELSE 0
    /\ wire' = IF erased
               THEN Sent(IF outcome = "Ok"
                         THEN cancel_frame(tx_buf)
                         ELSE erase_frame(tx_buf, new_firmware), TRUE)
               ELSE wire

\* fault: the new version is not recorded
update_unrecorded(outcome) == firmware' = firmware

\* Ok(()) => self.firmware = *firmwares.get(index).unwrap()
update_recorded(outcome) ==
    firmware' = IF outcome = "Ok" THEN firmwares[index + 1] ELSE firmware

\* update_module from the call of overwrite_module on
UpdateOverwrite ==
    /\ pc = "overwrite"
    /\ \E outcome \in {"Ok", "FirmwareUntouched", "FirmwareCorrupted", "panic"},
          erased \in BOOLEAN :
          /\ outcome # "FirmwareUntouched" => erased
          /\ Overwritten(outcome, erased)
          /\ update_recorded(outcome)
          /\ result' = outcome
          /\ pc' = IF outcome = "panic" THEN "done" ELSE "returned"
    /\ UNCHANGED <<driver_vars, overflow_checks, manufacturer, qr_front, qr_back,
                   engine_vars, hist, run_invalid, escape_fails, trace, ledger>>

\* the caller calls update_module again with the same firmware files
UpdateAgain ==
    /\ pc = "returned"
    /\ result \in {"Ok", "NoUpdate"}
    /\ runs < MaxRuns
    /\ pc' = "update"
    /\ result' = "none"
    /\ wire' = [kind |-> "none", bytes |-> <<>>, io |-> FALSE]
    /\ n_erase' = 0 /\ n_data' = 0 /\ n_cancel' = 0 /\ erase_ok' = FALSE
    /\ UNCHANGED <<driver_vars, overflow_checks, module_vars, engine_vars, hist,
                   run_invalid, escape_fails, trace, ledger>>

UpdateNext ==
    \/ UpdateModule
    \/ UpdateOverwrite
    \/ UpdateAgain

UpdateSpec == UpdateInit /\ [][UpdateNext]_vars

---------------------------------------------------------------------------
(* Properties of update_module *)

\* (a1, a2, a3) is lexicographically greater than (b1, b2, b3)
TripleGreater(a, b) ==
    \/ a[1] > b[1]
    \/ a[1] = b[1] /\ a[2] > b[2]
    \/ a[1] = b[1] /\ a[2] = b[2] /\ a[3] > b[3]

SoftwareOf(v) == <<v[5], v[6], v[7]>>

HardwareOf(v) == <<v[1], v[2], v[3], v[4]>>

\* f is a firmware the module `own` can be updated to
Qualifies(f, own) ==
    /\ HardwareOf(f) = HardwareOf(own)
    /\ SoftwareOf(f) # <<255, 255, 255>>
    /\ \/ TripleGreater(SoftwareOf(f), SoftwareOf(own))
       \/ SoftwareOf(own) = <<255, 255, 255>>

\* update_module has made its choice for the firmware the module has now
Chosen == pc = "overwrite" \/ (pc = "returned" /\ result = "NoUpdate")

\* C11: update_module chooses a firmware exactly when one of the set has the
\* module's hardware, a software other than (255,255,255), and a software
\* lexicographically greater than the module's (or the module's software is
\* (255,255,255)); the chosen one is such a firmware and no such firmware has
\* a greater software.
C11_SelectsGreatestCandidate ==
    Chosen =>
        /\ (index # NoIndex)
              <=> \E i \in 1..Len(firmwares) : Qualifies(firmwares[i], firmware)
        /\ index # NoIndex =>
              /\ index \in 0..(Len(firmwares) - 1)
              /\ Qualifies(firmwares[index + 1], firmware)
              /\ \A i \in 1..Len(firmwares) :
                    Qualifies(firmwares[i], firmware)
                       => ~TripleGreater(SoftwareOf(firmwares[i]),
                                         SoftwareOf(firmwares[index + 1]))

C11_Witness ==
    /\ pc = "overwrite"
    /\ SoftwareOf(firmware) = <<255, 255, 255>>
    /\ Len(firmwares) = 3
    /\ index = 1
    /\ SoftwareOf(firmwares[1]) = <<255, 255, 255>>
    /\ Qualifies(firmwares[3], firmware)

\* C12: a call of update_module that finds no firmware returns the no-update
\* outcome, leaves the fields of the module as they were and sends no frame;
\* after a successful update the firmware of the module is the chosen one,
\* and a second call with the same set of firmwares finds none.
C12_NoUpdateIsNoOp ==
    /\ [](/\ result = "NoUpdate" =>
                /\ index = NoIndex
                /\ n_erase = 0 /\ n_data = 0 /\ n_cancel = 0
                /\ wire.kind = "none"
          /\ (pc = "returned" /\ result = "Ok") =>
                /\ firmware = new_firmware
                /\ firmware = firmwares[index + 1]
          /\ (runs = 2 /\ pc # "update") => result = "NoUpdate")
    /\ [][result' = "NoUpdate" => module_vars' = module_vars /\ wire' = wire]_vars

C12_Witness ==
    /\ runs = 2
    /\ result = "NoUpdate"
    /\ firmware = new_firmware
    /\ \E i \in 1..Len(firmwares) : firmwares[i] = firmware

---------------------------------------------------------------------------
(* The inventory file /usr/module-firmware/modules.txt: save_modules *)

\* the variants of the controller: `controller as usize` is one more than the
\* number of slots
ModulineIV == 9

ModulineMini == 5

ModulineDisplay == 3

slot_count(variant) == variant - 1

\* n - 1 colons: n empty columns
RECURSIVE Colons(_)
Colons(n) == IF n <= 1 THEN <<>> ELSE <<":">> \o Colons(n - 1)

\* ControllerTypes::get_empty_modules_file: four lines of empty columns
get_empty_modules_file(variant) ==
    LET line == Colons(IF variant = ModulineIV THEN 8
                       ELSE IF variant = ModulineMini THEN 4 ELSE 2)
    IN  line \o <<NL>> \o line \o <<NL>> \o line \o <<NL>> \o line

\* str::split(sep): the pieces between the separators, empty ones included
RECURSIVE split_at(_, _, _)
split_at(s, sep, start) ==
    LET hits == { i \in start..Len(s) : s[i] = sep }
    IN  IF hits = {}
        THEN << SubSeq(s, start, Len(s)) >>
        ELSE LET i == CHOOSE h \in hits : \A k \in hits : h <= k
             IN  << SubSeq(s, start, i - 1) >> \o split_at(s, sep, i + 1)

split_by(s, sep) == split_at(s, sep, 1)

\* [String]::join(sep)
RECURSIVE join(_, _)
join(pieces, sep) ==
    IF pieces = <<>> THEN <<>>
    ELSE IF Len(pieces) = 1 THEN pieces[1]
    ELSE pieces[1] \o <<sep>> \o join(Tail(pieces), sep)

DIGITS == <<"0", "1", "2", "3", "4", "5", "6", "7", "8", "9">>

\* format!("{}", n) of an unsigned number
RECURSIVE to_string(_)
to_string(n) ==
    IF n < 10 THEN << DIGITS[n + 1] >>
    ELSE to_string(n \div 10) \o << DIGITS[(n % 10) + 1] >>

\* FirmwareVersion::as_string: the seven numbers with dashes
as_string(v) == join([i \in 1..7 |-> to_string(v[i])], "-")

\* Option<Module>::None and Some
NoModule ==
    [slot |-> 0, firmware |-> Zeros(7), manufacturer |-> 0, qr_front |-> 0,
     qr_back |-> 0]

is_some(m) == m.slot # 0

\* the file as save_modules reads it: read_to_string fails, or gives the text
NoFile == [exists |-> FALSE, text |-> <<>>]

File(text) == [exists |-> TRUE, text |-> text]

\* the text save_modules works on: the file if it has four lines, else the
\* template
modules_string(file, variant) ==
    IF file.exists /\ Len(split_by(file.text, NL)) = 4
    THEN file.text
    ELSE get_empty_modules_file(variant)

\* the four vectors: the columns of the first four lines
columns_of(text) == [r \in 1..4 |-> split_by(split_by(text, NL)[r], ":")]

\* the four entries of a module
entries_of(m) ==
    << as_string(m.firmware), to_string(m.manufacturer), to_string(m.qr_front),
       to_string(m.qr_back) >>

\* fault: a Some(module) is written to the column of its index in the list
target_column_by_index(m, i) == i

\* the column an element of the list is written to: slot-1 of a module, the
\* index of a None
target_column(m, i) == IF is_some(m) THEN m.slot - 1 ELSE i

\* the loop over modules.iter().enumerate() from index i on; `get_mut(..)
\* .unwrap()` panics on a column the vector does not have
RECURSIVE write_columns(_, _, _)
write_columns(table, list, i) ==
    IF i >= Len(list) THEN [panic |-> FALSE, table |-> table]
    ELSE LET m   == list[i + 1]
             col == target_column(m, i)
             new == IF is_some(m) THEN entries_of(m) ELSE << <<>>, <<>>, <<>>, <<>> >>
         IN  IF \E r \in 1..4 : col >= Len(table[r])
             THEN [panic |-> TRUE, table |-> table]
             ELSE write_columns([r \in 1..4 |-> [table[r] EXCEPT ![col + 1] = new[r]]],
                                list, i + 1)

\* lines.join("\n") of the four joined vectors
text_of(table) == join([r \in 1..4 |-> join(table[r], ":")], NL)

\* save_modules: whether it panics, and the file it leaves
save_modules(list, variant, file) ==
    LET done == write_columns(columns_of(modules_string(file, variant)), list, 0)
    IN  IF done.panic
        THEN [panic |-> TRUE, file |-> file]
        ELSE [panic |-> FALSE, file |-> File(text_of(done.table))]

\* modules.into_iter().flatten().collect()
RECURSIVE flatten(_)
flatten(list) ==
    IF list = <<>> THEN <<>>
    ELSE IF is_some(Head(list)) THEN <<Head(list)>> \o flatten(Tail(list))
    ELSE flatten(Tail(list))

---------------------------------------------------------------------------
(* main: scan, save, and the commands *)

\* the controllers of the model
Controllers == {ModulineDisplay, ModulineMini}

Services == {"nodered", "go-simulink"}

\* the services that can be found running
RunningSets == { {}, {"nodered"}, Services }

\* the firmware files that are named on the command line or picked
NamedVersions ==
    { HARDWARE_A \o <<0, 1, 0>>, HARDWARE_A \o NO_SOFTWARE, HARDWARE_B \o <<2, 0, 0>>,
      HARDWARE_B \o <<0, 0, 1>> }

\* fault: the range of the scan includes its upper end
probe_slots_inclusive(variant) == 1..variant

\* `for i in 1..controller as usize`: the slots get_modules probes
probe_slots(variant) == 1..(variant - 1)

\* the slots Module::new knows for the controller
known_slots(variant) ==
    IF variant = ModulineIV THEN 1..8
    ELSE IF variant = ModulineMini THEN 1..4 ELSE 1..2

\* what the module in a slot reports in its identity reply
ModuleAt(slot) ==
    [slot |-> slot,
     firmware |-> IF slot = 1 THEN HARDWARE_A \o <<0, 0, 9>>
                  ELSE IF slot = 2 THEN HARDWARE_A \o NO_SOFTWARE
                  ELSE IF slot = 3 THEN HARDWARE_B \o <<0, 0, 1>>
                  ELSE HARDWARE_A \o <<1, 0, 0>>,
     manufacturer |-> 7 * slot,
     qr_front |-> 120 + slot,
     qr_back |-> 4000 + slot]

\* what modules.txt can hold before the program runs: nothing, four lines
\* of n, n+1 or n-1 columns, four lines and a final newline
OldTable(rows, n) == [r \in 1..rows |-> [c \in 1..n |-> <<"o", DIGITS[r + 1], DIGITS[c + 1]>>]]

OldText(rows, n) == join([r \in 1..rows |-> join(OldTable(rows, n)[r], ":")], NL)

PriorFiles(variant) ==
    LET n == slot_count(variant)
    IN  { NoFile, File(OldText(4, n)), File(OldText(4, n + 1)), File(OldText(4, n - 1)),
          File(OldText(4, n) \o <<NL>>) }

\* the slot numbers given on the command line
SlotArgs == {0, 1, 2, 4, 5}

\* the firmware files main finds
AvailableLists ==
    { <<>>,
      << HARDWARE_A \o <<0, 1, 0>>, HARDWARE_A \o <<1, 0, 0>> >>,
      << HARDWARE_A \o NO_SOFTWARE, HARDWARE_B \o <<2, 0, 0>>, HARDWARE_A \o <<0, 0, 9>> >> }

\* exit(code), after starting the services again or not
Exit(code, restart) ==
    /\ pc' = "done"
    /\ exit_code' = code
    /\ restarted' = IF restart THEN services ELSE {}

success == Exit("0", TRUE)

err_n_restart_services == Exit("-1", TRUE)

err_n_die == Exit("-1", FALSE)

\* a panic of the main task: the process ends, nothing is restarted
Panic(where) ==
    /\ pc' = "done"
    /\ exit_code' = "panic"
    /\ restarted' = {}
    /\ fault' = where

MainInit ==
    /\ pc = "main"
    /\ firmware = Zeros(7)
    /\ overflow_checks = FALSE
    /\ upload_idle
    /\ driver_idle

scan_vars == <<probe, completed, joined, join_bound, modules, held>>

file_vars == <<inventory, before, saved, saves>>

update_vars == <<module, upload, upload_results, call_result, firmwares, index, runs,
                 rerequest>>

\* main up to the await of the scan: hardware file, services, firmware
\* directory, command
MainStart ==
    /\ pc = "main"
    /\ \E hardware \in Controllers \cup {0}, running \in RunningSets,
          dir_ok \in BOOLEAN, arg \in {"scan", "update", "overwrite", "other"} :
          IF hardware = 0
          THEN /\ services' = {}
               /\ err_n_die
               /\ UNCHANGED <<controller, command>>
          ELSE /\ controller' = hardware
               /\ services' = running
               /\ IF ~dir_ok \/ arg = "other"
                  THEN /\ pc' = "done"
                       /\ exit_code' = "-1"
                       /\ restarted' = running
                       /\ UNCHANGED command
                  ELSE /\ command' = arg
                       /\ pc' = "scan"
                       /\ UNCHANGED <<exit_code, restarted>>
    /\ UNCHANGED <<upload_vars_but_pc, filename_vars, scan_vars, file_vars, update_vars, fault>>

\* get_modules: one task per slot is spawned
ScanSpawn ==
    /\ pc = "scan"
    /\ probe' = [slot \in probe_slots(controller) |-> "spawned"]
    /\ held' = [slot \in probe_slots(controller) |-> 0]
    /\ completed' = <<>>
    /\ joined' = 0
    /\ join_bound' = Cardinality(probe_slots(controller))
    /\ modules' = <<>>
    /\ pc' = "join"
    /\ UNCHANGED <<upload_vars_but_pc, filename_vars, controller, services, command, file_vars,
                   update_vars, exit_code, restarted, fault>>

\* what update_module comes to in a task of update_all_modules
upload_outcomes(m, list) ==
    IF choose_firmware(list, m.firmware) = NoIndex
    THEN {"NoUpdate"}
    ELSE {"Ok", "FirmwareUntouched", "FirmwareCorrupted", "panic"}

\* what Module::new comes to in a task of get_modules: Some(module), None,
\* or a panic of one of its unwraps, which join_next reports as an Err; the
\* panic is drawn on the two-slot controller only
probe_outcomes(variant) ==
    IF variant = ModulineDisplay THEN {"live", "vacant", "aborted"} ELSE {"live", "vacant"}

\* the runtime polls a spawned task to its end while main waits in
\* join_next: Module::new in a task of get_modules (Some(module), None, or a
\* panic of an unwrap), update_module in a task of update_all_modules
TaskRun(slot) ==
    /\ \/ /\ pc = "join"
          /\ slot \in DOMAIN probe
          /\ probe[slot] = "spawned"
          /\ \E status \in probe_outcomes(controller) :
                /\ probe' = [probe EXCEPT ![slot] = status]
                /\ held' = [held EXCEPT ![slot] = IF status = "live" THEN 1 ELSE 0]
          /\ UNCHANGED upload
       \/ /\ pc = "update_join"
          /\ slot \in DOMAIN upload
          /\ upload[slot] = "spawned"
          /\ \E res \in upload_outcomes(ModuleAt(slot), firmwares) :
                upload' = [upload EXCEPT ![slot] = res]
          /\ UNCHANGED <<probe, held>>
    /\ completed' = Append(completed, slot)
    /\ UNCHANGED <<pc, upload_vars_but_pc, filename_vars, controller, services, command, joined,
                   join_bound, modules, file_vars, module, upload_results, call_result, firmwares, index, runs,
                   rerequest, exit_code, restarted, fault>>

\* fault: the modules are put into the list in the order they were joined
place_in_order(list, variant) ==
    [i \in 1..slot_count(variant) |-> IF i <= Len(list) THEN list[i] ELSE NoModule]

\* modules_out of get_modules_and_save: a None for every slot, then
\* modules_out[slot-1] = Some(module)
place_by_slot(list, variant) ==
    [i \in 1..slot_count(variant) |->
        IF \E k \in 1..Len(list) : list[k].slot = i
        THEN list[CHOOSE k \in 1..Len(list) : list[k].slot = i]
        ELSE NoModule]

\* get_modules_and_save after the last join: modules_out and save_modules
scan_save(list) ==
    \E prior \in PriorFiles(controller) :
        LET modules_out == place_by_slot(list, controller)
            written     == save_modules(modules_out, controller, prior)
        IN  /\ before' = prior
            /\ saved' = modules_out
            /\ IF written.panic
               THEN /\ Panic("save_modules")
                    /\ UNCHANGED <<inventory, saves, modules>>
               ELSE /\ inventory' = written.file
                    /\ saves' = saves + 1
                    /\ modules' = flatten(modules_out)
                    /\ pc' = "dispatch"
                    /\ UNCHANGED <<exit_code, restarted, fault>>

\* update_all_modules after its join loop: the match on the results, the
\* save, and the end of the process
finish_update_all(results) ==
    LET new_modules ==
            [i \in 1..Cardinality({k \in 1..Len(results) : results[k].res = "Ok"}) |->
                LET k == CHOOSE k \in 1..Len(results) :
                            /\ results[k].res = "Ok"
                            /\ Cardinality({j \in 1..k : results[j].res = "Ok"}) = i
                IN  [ModuleAt(results[k].slot) EXCEPT
                        !.firmware = firmwares'[choose_firmware(firmwares',
                                                   ModuleAt(results[k].slot).firmware) + 1]]]
        firmware_corrupted == \E k \in 1..Len(results) : results[k].res = "FirmwareCorrupted"
        written == save_modules(new_modules, controller, inventory)
    IN  /\ before' = inventory
        /\ saved' = new_modules
        /\ IF written.panic
           THEN Panic("save_modules") /\ UNCHANGED <<inventory, saves>>
           ELSE /\ inventory' = written.file
                /\ saves' = saves + 1
                /\ IF firmware_corrupted THEN err_n_die ELSE success
                /\ UNCHANGED fault

\* main takes the next finished task in join_next: in get_modules a
\* Some(Ok(Some(module))) is pushed and anything else dropped; in
\* update_all_modules the result is unwrapped and pushed
JoinNext ==
    /\ completed # <<>>
    /\ LET slot == Head(completed)
       IN  \/ /\ pc = "join"
              /\ joined' = joined + 1
              /\ completed' = Tail(completed)
              /\ LET list == IF probe[slot] = "live"
                             THEN Append(modules, ModuleAt(slot))
                             ELSE modules
                 IN  IF joined' = join_bound
                     THEN scan_save(list)
                     ELSE /\ modules' = list
                          /\ UNCHANGED <<pc, file_vars, exit_code, restarted, fault>>
              /\ UNCHANGED <<upload_results, firmwares>>
           \/ /\ pc = "update_join"
              /\ joined' = joined + 1
              /\ completed' = Tail(completed)
              /\ UNCHANGED <<modules, firmwares>>
              /\ IF upload[slot] = "panic"
                 THEN /\ Panic("update_module")
                      /\ UNCHANGED <<upload_results, file_vars>>
                 ELSE /\ upload_results' =
                            Append(upload_results, [slot |-> slot, res |-> upload[slot]])
                      /\ IF joined' = join_bound
                         THEN finish_update_all(upload_results')
                         ELSE UNCHANGED <<pc, file_vars, exit_code, restarted, fault>>
    /\ UNCHANGED <<upload_vars_but_pc, filename_vars, controller, services, command, probe, held, module,
                   join_bound, upload, call_result, index, runs, rerequest>>

\* the scan command: the modules are printed
RunScan ==
    /\ pc = "dispatch"
    /\ command = "scan"
    /\ success
    /\ UNCHANGED <<upload_vars_but_pc, filename_vars, controller, services, command, scan_vars,
                   file_vars, update_vars, fault>>

\* update_all_modules up to its end or to the first join_next: new_modules
\* is made with Vec::with_capacity, a task is spawned for every module, and
\* the join loop runs `0..new_modules.len()`
UpdateAllModules ==
    /\ pc = "dispatch"
    /\ command = "update"
    /\ \E list \in AvailableLists :
          LET new_modules == <<>>
          IN  /\ firmwares' = list
              /\ upload' = [slot \in DOMAIN probe |->
                              IF \E k \in 1..Len(modules) : modules[k].slot = slot
                              THEN "spawned" ELSE "none"]
              /\ modules' = <<>>
              /\ completed' = <<>>
              /\ joined' = 0
              /\ join_bound' = Len(new_modules)
              /\ upload_results' = <<>>
              /\ IF join_bound' > 0
                 THEN /\ pc' = "update_join"
                      /\ UNCHANGED <<file_vars, exit_code, restarted, fault>>
                 ELSE finish_update_all(upload_results')
    /\ UNCHANGED <<upload_vars_but_pc, filename_vars, controller, services, command, probe, held, module,
                   call_result, index, runs, rerequest>>

\* `slot < controller as u8 || slot >= 1` of the update command
slot_accepted(slot, variant) == slot < variant \/ slot >= 1

\* `update <slot>` and `overwrite <slot>`: Module::new(slot) of main, while
\* `modules` of the scan is alive.  A slot the controller does not have gives
\* None; else the interrupt line is requested and the spidev opened, and the
\* probe gives Some(module) or None or an unwrap panics
ModuleBySlot ==
    /\ pc = "dispatch"
    /\ command \in {"update", "overwrite"}
    /\ \E parsed \in BOOLEAN, slot \in SlotArgs, status \in {"live", "vacant", "aborted"} :
          IF ~parsed \/ (command = "update" /\ ~slot_accepted(slot, controller))
             \/ slot \notin known_slots(controller)
          THEN /\ err_n_restart_services
               /\ UNCHANGED <<held, rerequest, module, fault>>
          ELSE /\ rerequest' = (rerequest \/ held[slot] > 0)
               /\ IF status = "live"
                  THEN /\ held' = [held EXCEPT ![slot] = held[slot] + 1]
                       /\ module' = ModuleAt(slot)
                       /\ pc' = IF command = "update" THEN "update_one" ELSE "overwrite"
                       /\ UNCHANGED <<exit_code, restarted, fault>>
                  ELSE /\ UNCHANGED <<held, module>>
                       /\ IF status = "vacant"
                          THEN err_n_restart_services /\ UNCHANGED fault
                          ELSE Panic("Module::new")
    /\ UNCHANGED <<upload_vars_but_pc, filename_vars, controller, services, command, probe, completed,
                   joined, join_bound, modules, file_vars, upload, upload_results,
                   call_result, firmwares, index, runs>>

\* the module is chosen at the prompt from `modules`, which is moved into
\* the prompt: the modules not chosen are dropped
ModuleByPrompt ==
    /\ pc = "dispatch"
    /\ command \in {"update", "overwrite"}
    /\ \E k \in 0..Len(modules) :
          IF k = 0
          THEN /\ err_n_restart_services
               /\ UNCHANGED <<modules, held, module>>
          ELSE /\ module' = modules[k]
               /\ modules' = <<>>
               /\ held' = [slot \in DOMAIN held |->
                             IF slot = modules[k].slot THEN held[slot] ELSE 0]
               /\ pc' = IF command = "update" THEN "update_one" ELSE "overwrite"
               /\ UNCHANGED <<exit_code, restarted>>
    /\ UNCHANGED <<upload_vars_but_pc, filename_vars, controller, services, command, probe, completed,
                   joined, join_bound, file_vars, upload, upload_results, call_result,
                   firmwares, index, runs, rerequest, fault>>

\* fault: the services are started again whatever the upload returned
end_of_upload_restarting(res) ==
    IF res = "Ok" THEN success ELSE err_n_restart_services

\* the end of the process after a single upload returned an error or Ok
end_of_upload(res) ==
    IF res = "Ok" THEN success
    ELSE IF res = "FirmwareCorrupted" THEN err_n_die
    ELSE err_n_restart_services

\* what main does with the result of an upload of `module` to `version`:
\* the version is recorded and saved on Ok
after_upload(res, version) ==
    /\ call_result' = res
    /\ IF res = "panic"
       THEN Panic("overwrite_module") /\ UNCHANGED <<module, file_vars>>
       ELSE IF res = "Ok"
       THEN LET written == save_modules(<<module'>>, controller, inventory)
            IN  /\ module' = [module EXCEPT !.firmware = version]
                /\ before' = inventory
                /\ saved' = <<module'>>
                /\ IF written.panic
                   THEN Panic("save_modules") /\ UNCHANGED <<inventory, saves>>
                   ELSE /\ inventory' = written.file
                        /\ saves' = saves + 1
                        /\ end_of_upload(res)
                        /\ UNCHANGED fault
       ELSE /\ end_of_upload(res)
            /\ UNCHANGED <<module, file_vars, fault>>

\* update_one_module, for the firmware files main found
UpdateOneModule ==
    /\ pc = "update_one"
    /\ \E list \in AvailableLists :
          /\ index' = choose_firmware(list, module.firmware)
          /\ IF index' = NoIndex
             THEN /\ call_result' = "NoUpdate"
                  /\ err_n_restart_services
                  /\ UNCHANGED <<module, file_vars, fault>>
             ELSE \E res \in {"Ok", "FirmwareUntouched", "FirmwareCorrupted", "panic"} :
                     after_upload(res, list[index' + 1])
    /\ UNCHANGED <<upload_vars_but_pc, filename_vars, controller, services, command, scan_vars, upload,
                   upload_results, firmwares, runs, rerequest>>

\* the overwrite command from the choice of the firmware on: the file named
\* on the command line must parse and be among the files found; at the
\* prompt the files of the module's hardware are offered
OverwriteModule ==
    /\ pc = "overwrite"
    /\ \E list \in AvailableLists, how \in {"unparsable", "named", "prompt", "cancel"},
          version \in NamedVersions :
          /\ IF \/ how \in {"unparsable", "cancel"}
                \/ version \notin {list[i] : i \in 1..Len(list)}
                \/ how = "prompt" /\ get_hardware(version) # get_hardware(module.firmware)
             THEN /\ err_n_restart_services
                  /\ UNCHANGED <<module, call_result, file_vars, fault>>
             ELSE \E res \in {"Ok", "FirmwareUntouched", "FirmwareCorrupted", "panic"} :
                     after_upload(res, version)
    /\ UNCHANGED <<upload_vars_but_pc, filename_vars, controller, services, command, scan_vars, upload,
                   upload_results, firmwares, index, runs, rerequest>>

MainNext ==
    \/ MainStart
    \/ ScanSpawn
    \/ \E slot \in known_slots(ModulineIV) : TaskRun(slot)
    \/ JoinNext
    \/ RunScan
    \/ UpdateAllModules
    \/ ModuleBySlot
    \/ ModuleByPrompt
    \/ UpdateOneModule
    \/ OverwriteModule

MainSpec == MainInit /\ [][MainNext]_vars

-----------------------------------------------------------------------------
\* Properties of the main driver

\* the process has ended after an upload of the update or overwrite command
\* returned `res`
EndedAfter(res) == pc = "done" /\ call_result = res

\* C13: when an upload ends in FirmwareCorrupted (update of one slot,
\* overwrite, or a joined task of the update of all slots) the process
\* exits with an error and starts no service again; when it ends in
\* FirmwareUntouched or finds no update, the services that were running are
\* started again
C13_CorruptedExitsWithoutRestart ==
    /\ EndedAfter("FirmwareCorrupted") => exit_code = "-1" /\ restarted = {}
    /\ EndedAfter("FirmwareUntouched") \/ EndedAfter("NoUpdate") =>
          exit_code = "-1" /\ restarted = services
    /\ pc = "done" /\ (\E k \in 1..Len(upload_results) :
                          upload_results[k].res = "FirmwareCorrupted") =>
          exit_code = "-1" /\ restarted = {}

C13_Witness ==
    /\ EndedAfter("FirmwareCorrupted")
    /\ command = "overwrite"
    /\ services = Services
    /\ restarted = {}

\* C14: a slot never has more than one Module: the interrupt line and the
\* SPI endpoint of a slot are not requested while a Module of that slot is
\* held, the `update <slot>` and `overwrite <slot>` commands included
C14_OneHandlePerSlot ==
    /\ ~rerequest
    /\ \A slot \in DOMAIN held : held[slot] <= 1

\* the slots for which update_all_modules spawned an upload task
UploadTasks == {slot \in DOMAIN upload : upload[slot] # "none"}

\* C15: the update of all slots starts one upload task for every module of
\* the scan, joins every task and collects its result, and the process
\* does not save modules.txt or exit while a task has not run to its end
C15_AllUploadTasksJoined ==
    upload # <<>> =>
       /\ UploadTasks = {slot \in DOMAIN probe : probe[slot] = "live"}
       /\ pc = "done" =>
             /\ \A slot \in UploadTasks : upload[slot] # "spawned"
             /\ {upload_results[k].slot : k \in 1..Len(upload_results)} = UploadTasks
       /\ saves > 1 => \A slot \in UploadTasks : upload[slot] # "spawned"

\* the slots whose probe task main has taken in join_next
ScanJoined ==
    {slot \in DOMAIN probe :
        /\ probe[slot] # "spawned"
        /\ \A k \in 1..Len(completed) : completed[k] # slot}

\* how often the module of a slot is in `modules`
TimesIn(list, slot) == Cardinality({k \in 1..Len(list) : list[k] = ModuleAt(slot)})

\* `modules` holds one Module for every joined slot whose probe validated,
\* and nothing else
OnePerLiveSlot ==
    /\ \A slot \in DOMAIN probe :
          TimesIn(modules, slot) = IF slot \in ScanJoined /\ probe[slot] = "live" THEN 1 ELSE 0
    /\ Len(modules) = Cardinality({slot \in ScanJoined : probe[slot] = "live"})

\* C16: the scan starts one probe task for every slot 1..N of the
\* controller and joins all N; in whatever order the tasks end, it returns
\* one Module for every slot whose probe validated and none for a slot
\* whose probe failed or aborted, and no probe ends the scan early
C16_ScanReturnsLiveModules ==
    /\ [](pc \in {"join", "dispatch"} =>
             /\ DOMAIN probe = 1..slot_count(controller)
             /\ joined = Cardinality(ScanJoined)
             /\ OnePerLiveSlot
             /\ pc = "dispatch" => joined = slot_count(controller))
    /\ [][pc = "join" /\ pc' # "join" => joined' = slot_count(controller)]_vars

C16_Witness ==
    /\ pc = "dispatch"
    /\ probe = <<"aborted", "live">>
    /\ modules = <<ModuleAt(2)>>
    /\ joined = 2

\* the entry of line r (1..4) and slot in the text of modules.txt
EntryOf(file, r, slot) == columns_of(file.text)[r][slot]

\* C17: when the scan and its save have returned, on each of the four
\* lines of modules.txt the column of a slot whose probe failed is empty
\* and the column of a slot with a module holds the module's firmware
\* string, manufacturer, front QR and rear QR, in whatever order the scan
\* collected the modules
C17_ScanSaveWritesEverySlot ==
    pc = "dispatch" =>
       \A slot \in 1..slot_count(controller), r \in 1..4 :
          EntryOf(inventory, r, slot) =
             IF probe[slot] = "live" THEN entries_of(ModuleAt(slot))[r] ELSE <<>>

C17_Witness ==
    /\ pc = "dispatch"
    /\ before = File(OldText(4, 2))
    /\ probe = <<"vacant", "live">>
    /\ EntryOf(before, 1, 1) # <<>>
    /\ EntryOf(inventory, 1, 1) = <<>>
    /\ EntryOf(inventory, 4, 1) = <<>>
    /\ EntryOf(inventory, 1, 2) = <<"2", "0", "-", "1", "0", "-", "1", "-", "5", "-",
                                    "2", "5", "5", "-", "2", "5", "5", "-", "2", "5", "5">>
    /\ EntryOf(inventory, 2, 2) = <<"1", "4">>
    /\ EntryOf(inventory, 3, 2) = <<"1", "2", "2">>
    /\ EntryOf(inventory, 4, 2) = <<"4", "0", "0", "2">>

\* the last call of save_modules returned: it found `before`, was given
\* `saved` and left `inventory`
SaveReturned == saves >= 1 /\ fault # "save_modules"

\* the columns (counted from 1) the list given to save_modules names
ToldColumns(list) ==
    {IF is_some(list[i]) THEN list[i].slot ELSE i : i \in 1..Len(list)}

FourLines(file) == file.exists /\ Len(split_by(file.text, NL)) = 4

\* C18: save_modules changes the columns it is told about and no other:
\* the column slot-1 of a Some(module) holds the module's firmware string,
\* manufacturer, qr_front and qr_back, the column i of a None at index i is
\* empty, and every other column of a four-line file is written back as it
\* was
C18_SaveChangesOnlyToldColumns ==
    SaveReturned =>
       /\ \A i \in 1..Len(saved), r \in 1..4 :
             IF is_some(saved[i])
             THEN EntryOf(inventory, r, saved[i].slot) = entries_of(saved[i])[r]
             ELSE EntryOf(inventory, r, i) = <<>>
       /\ FourLines(before) =>
             \A r \in 1..4 :
                /\ Len(columns_of(inventory.text)[r]) = Len(columns_of(before.text)[r])
                /\ \A c \in 1..Len(columns_of(before.text)[r]) :
                      c \notin ToldColumns(saved) =>
                         EntryOf(inventory, r, c) = EntryOf(before, r, c)

C18_Witness ==
    /\ SaveReturned
    /\ pc = "done"
    /\ command = "overwrite"
    /\ call_result = "Ok"
    /\ saved = <<module>>
    /\ module.slot = 2
    /\ FourLines(before)
    /\ \A r \in 1..4 : EntryOf(before, r, 1) # <<>>
                       /\ EntryOf(inventory, r, 1) = EntryOf(before, r, 1)
    /\ EntryOf(inventory, 1, 2) # EntryOf(before, 1, 2)
    /\ EntryOf(inventory, 1, 2) = as_string(module.firmware)

\* C19: whatever modules.txt held before, save_modules does not abort and
\* leaves four lines of N colon-separated columns each, N the slot count
\* of the controller
C19_InventoryFourLinesOfNColumns ==
    /\ fault # "save_modules"
    /\ saves >= 1 =>
          /\ Len(split_by(inventory.text, NL)) = 4
          /\ \A r \in 1..4 : Len(columns_of(inventory.text)[r]) = slot_count(controller)

-----------------------------------------------------------------------------
\* The happy path of the upload engine

ShortLen == BOOTMESSAGE_LENGTH + 1

\* the frames of an upload of n records that meets no error: the erase
\* frame, the records 0..n-2, the status probe, the last record, the long
\* probe
HappyFrames(n) ==
    << [op |-> 29, len |-> ShortLen, line |-> 0] >>
       \o [i \in 1..(n - 1) |-> [op |-> 39, len |-> ShortLen, line |-> i - 1]]
       \o << [op |-> 49, len |-> ShortLen, line |-> 0],
             [op |-> 39, len |-> ShortLen, line |-> n - 1],
             [op |-> 49, len |-> BOOTMESSAGE_LENGTH_CHECK, line |-> 0] >>

\* the frames that went out before cancel_firmware_upload
BeforeCancel(frames) ==
    IF frames # <<>> /\ frames[Len(frames)].op = 19
    THEN SubSeq(frames, 1, Len(frames) - 1)
    ELSE frames

IsPrefix(s, t) == Len(s) <= Len(t) /\ SubSeq(t, 1, Len(s)) = s

\* C20: while every reply is a valid acknowledgement and the long probe
\* returns the firmware marker, the upload of data records and one
\* terminal record sends one opcode-29 frame, then one opcode-39 frame for
\* each record in increasing order of the index, with one short opcode-49
\* probe before the last and one long probe after it, and returns Ok; the
\* records [data0, data1, data2, terminal] take four opcode-39 frames
C20_HappyPathFrames ==
    trace.clean /\ trace.slip = "none" /\ Len(lines) > 1 =>
       /\ IsPrefix(BeforeCancel(trace.frames), HappyFrames(Len(lines)))
       /\ result = "Ok" => BeforeCancel(trace.frames) = HappyFrames(Len(lines))
       /\ pc = "done" /\ lines = split(File_plain) =>
             /\ result = "Ok"
             /\ Cardinality({k \in 1..Len(trace.frames) : trace.frames[k].op = 39}) = 4

C20_Witness ==
    /\ trace.clean
    /\ trace.slip = "none"
    /\ result = "Ok"
    /\ lines = split(File_plain)
    /\ [k \in 1..Len(trace.frames) |-> trace.frames[k].op] = <<29, 39, 39, 39, 49, 39, 49, 19>>
    /\ [k \in {2, 3, 4, 6} |-> trace.frames[k].line] = (2 :> 0) @@ (3 :> 1) @@ (4 :> 2) @@ (6 :> 3)

-----------------------------------------------------------------------------
\* Errors and retries of the upload engine

\* the opcode-39 frames of the trace that carried record i
TimesSent(i) ==
    Cardinality({k \in 1..Len(trace.frames) :
                    trace.frames[k].op = 39 /\ trace.frames[k].line = i})

\* the upload had one acknowledgement with a bad checksum on a data
\* exchange and no other error
OneBadAck == trace.clean /\ trace.slip = "data" /\ Len(lines) > 1

\* C21: when one reply to a data exchange, the acknowledgement of a line
\* i, has a bad checksum and every other reply is valid, line i is sent
\* twice, every other record once, and the upload returns Ok
C21_SingleRetry ==
    OneBadAck /\ pc = "done" =>
       /\ result = "Ok"
       /\ \A i \in 0..(Len(lines) - 1) :
             TimesSent(i) = IF i = trace.at THEN 2 ELSE 1

\* the long probe was answered once without the marker, and there was no
\* other error
OneFailedEscape == trace.clean /\ trace.slip = "escape" /\ Len(lines) > 1

\* the frames of an upload of n records whose first long probe fails: the
\* terminal record and the long probe follow once more
RetriedEscapeFrames(n) ==
    HappyFrames(n)
       \o << [op |-> 39, len |-> ShortLen, line |-> n - 1],
             [op |-> 49, len |-> BOOTMESSAGE_LENGTH_CHECK, line |-> 0] >>

\* C22: when the long probe after the acknowledged terminal record comes
\* back without the firmware marker and the next one with it, the terminal
\* record is sent once more with no status probe and no other record in
\* between, the failed probe is not counted as an error, and the upload
\* returns Ok
C22_FailedEscapeResendsTerminal ==
    /\ [](OneFailedEscape =>
             /\ IsPrefix(BeforeCancel(trace.frames), RetriedEscapeFrames(Len(lines)))
             /\ firmware_error_counter = 0
             /\ pc = "done" =>
                   /\ result = "Ok"
                   /\ BeforeCancel(trace.frames) = RetriedEscapeFrames(Len(lines)))
    /\ [][pc = "escape" /\ pc' = "loop" =>
             firmware_error_counter' = firmware_error_counter]_vars

C22_Witness ==
    /\ OneFailedEscape
    /\ result = "Ok"
    /\ lines = split(File_plain)
    /\ [k \in 1..Len(trace.frames) |-> trace.frames[k].op]
          = <<29, 39, 39, 39, 49, 39, 49, 39, 49, 19>>
    /\ trace.frames[8].line = 3
    /\ rx_buf_escape[7] = FIRMWARE_MARKER

-----------------------------------------------------------------------------
(* FirmwareVersion: the file name of a version and the version of a file
   name *)

\* Option<FirmwareVersion>
None == [some |-> FALSE, firmware |-> <<>>]

Some(v) == [some |-> TRUE, firmware |-> v]

\* FirmwareVersion::as_filename
as_filename(v) == as_string(v) \o <<".", "s", "r", "e", "c">>

\* the index of a character in DIGITS, 0 when it is no digit
DigitIndex(c) ==
    IF \E d \in 1..10 : DIGITS[d] = c THEN CHOOSE d \in 1..10 : DIGITS[d] = c ELSE 0

\* str::parse::<u8>: the value, or -1 for Err (empty text, a character that
\* is no decimal digit, a value above 255); one leading '+' is accepted
RECURSIVE DecimalValue(_)
DecimalValue(s) ==
    IF s = <<>> THEN 0
    ELSE IF DigitIndex(s[Len(s)]) = 0 \/ DecimalValue(SubSeq(s, 1, Len(s) - 1)) < 0 THEN -1
    ELSE LET v == DecimalValue(SubSeq(s, 1, Len(s) - 1)) * 10 + DigitIndex(s[Len(s)]) - 1
         IN  IF v > 255 THEN -1 ELSE v

parse_u8(s) ==
    LET digits == IF Len(s) > 1 /\ s[1] = "+" THEN Tail(s) ELSE s
    IN  IF digits = <<>> THEN -1 ELSE DecimalValue(digits)

\* fault: the whole name is split at the dashes
stem_whole_name(name) == name

\* name.split('.').next(): the name up to its first dot
stem(name) == split_by(name, ".")[1]

\* the loop over numbers.enumerate(): None for an eighth number and for a
\* number that does not parse
RECURSIVE parse_parts(_, _, _)
parse_parts(numbers, i, fw) ==
    IF i >= Len(numbers) THEN Some(fw)
    ELSE IF i >= Len(fw) THEN None
    ELSE IF parse_u8(numbers[i + 1]) < 0 THEN None
    ELSE parse_parts(numbers, i + 1, [fw EXCEPT ![i + 1] = parse_u8(numbers[i + 1])])

\* FirmwareVersion::from_filename
from_filename(name) == parse_parts(split_by(stem(name), "-"), 0, Zeros(7))

\* the values a byte of a version takes
TriedBytes == {0, 10, 255}

TriedVersions == [1..7 -> TriedBytes]

\* other names of files and of command line arguments
OtherNames ==
    { <<>>,
      <<"m", "o", "d", "u", "l", "e", "s", ".", "t", "x", "t">>,
      <<"2", "0", "-", "1", "0", "-", "1">>,
      <<"2", "0", "-", "1", "0", "-", "1", ".", "s", "r", "e", "c">>,
      <<"1", "-", "2", "-", "3", "-", "4", "-", "5", "-", "6", "-", "7", "-", "8",
        ".", "s", "r", "e", "c">>,
      <<"1", "-", "2", "-", "3", "-", "4", "-", "5", "-", "6", "-", "2", "5", "6",
        ".", "s", "r", "e", "c">>,
      <<"1", "-", "2", "-", "-", "4", "-", "5", "-", "6", "-", "7", ".", "s", "r", "e", "c">>,
      <<"0", "1", "-", "+", "2", "-", "3", "-", "4", "-", "5", "-", "6", "-", "7",
        ".", "1", "-", "s", "r", "e", "c">> }

FilenameInit ==
    /\ overflow_checks = FALSE
    /\ upload_idle
    /\ firmwares = <<>>
    /\ index = NoIndex
    /\ runs = 0
    /\ controller = 0 /\ services = {} /\ command = "none" /\ probe = <<>>
    /\ completed = <<>> /\ joined = 0 /\ join_bound = 0 /\ modules = <<>> /\ held = <<>>
    /\ rerequest = FALSE
    /\ inventory = [exists |-> FALSE, text |-> <<>>]
    /\ before = [exists |-> FALSE, text |-> <<>>]
    /\ saved = <<>> /\ module = [slot |-> 0] /\ upload = <<>> /\ upload_results = <<>>
    /\ call_result = "none" /\ exit_code = "running" /\ restarted = {} /\ saves = 0
    /\ fault = "none"
    /\ parse_result = None
    /\ \/ pc = "version" /\ firmware \in TriedVersions /\ filename = <<>>
       \/ pc = "named" /\ firmware = Zeros(7) /\ filename \in OtherNames

\* the file name of a version: overwrite_module reads the file of this name
AsFilename ==
    /\ pc = "version"
    /\ filename' = as_filename(firmware)
    /\ pc' = "named"
    /\ UNCHANGED <<upload_vars_but_pc, firmwares, index, runs, main_vars, parse_result>>

\* main: a name found in /usr/module-firmware or given on the command line
FromFilename ==
    /\ pc = "named"
    /\ parse_result' = from_filename(filename)
    /\ pc' = "parsed"
    /\ UNCHANGED <<upload_vars_but_pc, firmwares, index, runs, main_vars, filename>>

FilenameNext ==
    \/ AsFilename
    \/ FromFilename

FilenameSpec == FilenameInit /\ [][FilenameNext]_vars

\* C23: the file name of a version parses to the version again:
\* from_filename(as_filename(v)) = Some(v) for every version v of seven
\* bytes, and every byte 0..255 is read back from its decimal form
C23_FilenameRoundTrip ==
    /\ pc = "parsed" /\ filename = as_filename(firmware) => parse_result = Some(firmware)
    /\ \A b \in Byte : parse_u8(to_string(b)) = b

C23_Witness ==
    /\ pc = "parsed"
    /\ firmware = <<255, 10, 0, 0, 10, 255, 0>>
    /\ filename = <<"2", "5", "5", "-", "1", "0", "-", "0", "-", "0", "-", "1", "0", "-",
                    "2", "5", "5", "-", "0", ".", "s", "r", "e", "c">>
    /\ parse_result = Some(firmware)

-----------------------------------------------------------------------------
\* The cursors of the upload loop

\* C24: at the start of every iteration of the upload loop, after any
\* replies and transport errors, firmware_line_check is still usize::MAX or
\* line_number - firmware_line_check is -1, 0 or 1
C24_CursorsAdjacent ==
    pc = "loop" =>
       \/ firmware_line_check = USIZE_MAX
       \/ line_number - firmware_line_check \in {-1, 0, 1}

\* a step of the data exchange in which the reply was tested and found to
\* be the acknowledgement of firmware_line_check
AckAccepted ==
    /\ pc \in {"loop", "send"}
    /\ pc' \in {"loop", "escape"}
    /\ hist'[2].kind = "data"
    /\ hist'[2].good
    /\ firmware_line_check # USIZE_MAX

\* C25 as stated: after a reply is accepted as ACK(rx, c) on a data
\* exchange, firmware_line_check is c, the line that was confirmed
C25_CheckNamesConfirmedLine ==
    [][AckAccepted => firmware_line_check' = firmware_line_check]_vars

\* C25, amended: a reply is accepted as ACK(rx, c) on a data exchange only
\* for c = firmware_line_check; after it, with an even and with an odd
\* error counter, firmware_line_check is the line of the frame just sent,
\* whose acknowledgement is the next to come, and line_number is not behind
\* it
C25_CheckNamesSentLine ==
    [][AckAccepted =>
          /\ wire'.bytes[1] = 39
          /\ firmware_line_check' = LineField(wire'.bytes)
          /\ firmware_line_check' = line_number
          /\ firmware_error_counter % 2 = 0 => line_number' \in {line_number, line_number + 1}
          /\ firmware_error_counter % 2 = 1 =>
                line_number' \in {firmware_line_check, firmware_line_check + 1}]_vars

C25_Witness ==
    /\ pc = "loop"
    /\ hist[2].kind = "data"
    /\ hist[2].good
    /\ hist[1].kind = "data"
    /\ ~hist[1].good
    /\ firmware_error_counter = 0
    /\ firmware_line_check = LineField(wire.bytes)
    /\ line_number = firmware_line_check + 2


---------------------------------------------------------------------------
(* The status probe before the last record *)

\* a step of the loop that puts a firmware message on the wire
DataSent ==
    /\ \/ pc = "send"
       \/ pc = "loop" /\ message_type # 7
    /\ hist'[2].kind = "data"
    /\ result' # "panic"

\* a step of the loop that sends the status probe and does not get the
\* acknowledgement of firmware_line_check for it
ProbeFails ==
    /\ pc = "loop"
    /\ message_type # 7
    /\ hist'[2].kind = "status"
    /\ ~hist'[2].good

\* C26: a firmware message with the type-7 record is sent only when
\* firmware_line_check = line_number or right after a status probe whose
\* reply was the acknowledgement of firmware_line_check; a status probe that
\* fails (invalid reply or transfer error) sends no firmware message in its
\* iteration, counts an error, swaps the cursors and sets message_type to 0
C26_TerminalOnlyAfterProbe ==
    [][/\ DataSent /\ wire'.bytes[9] = 7 =>
             /\ wire'.bytes[1] = 39
             /\ \/ firmware_line_check = line_number
                \/ /\ pc = "send"
                   /\ hist[2].kind = "status"
                   /\ hist[2].good
                   /\ wire.bytes[1] = 49
       /\ ProbeFails =>
             /\ wire'.bytes[1] = 49
             /\ n_data' = n_data
             /\ pc' = "loop"
             /\ firmware_error_counter' = firmware_error_counter + 1
             /\ line_number' = firmware_line_check
             /\ firmware_line_check' = line_number
             /\ message_type' = 0]_vars

\* the last record was sent right after an accepted status probe, in an
\* upload in which an earlier status probe had failed
C26_Witness ==
    /\ hist[1].kind = "status"
    /\ hist[1].good
    /\ hist[2].kind = "data"
    /\ hist[2].mtype = 7
    /\ wire.bytes[9] = 7
    /\ firmware_error_counter = 2
    /\ pc = "escape"


---------------------------------------------------------------------------
(* The first firmware message *)

\* C27: whatever the first opcode-39 exchange of an upload returns, the
\* engine goes on with firmware_line_check = 0 and line_number = 1, counts no
\* error and does not swap the cursors
C27_FirstReplyDiscarded ==
    [][DataSent /\ firmware_line_check = USIZE_MAX =>
          /\ firmware_line_check' = 0
          /\ line_number' = 1
          /\ firmware_error_counter' = firmware_error_counter
          /\ pc' = "loop"]_vars


---------------------------------------------------------------------------
(* Transfer errors and invalid replies *)

\* a step of the loop whose exchange, status probe or firmware message,
\* did not bring the acknowledgement of firmware_line_check: the transfer
\* failed, or the reply has a bad checksum, another line or another state
ExchangeFails ==
    /\ ProbeFails \/ DataSent
    /\ ~hist'[2].good

\* the state change of the error path; the budget ends the upload at the
\* firmware message
ErrorPathTaken ==
    /\ line_number' = firmware_line_check
    /\ firmware_line_check' = line_number
    /\ message_type' = 0
    /\ firmware_error_counter' = firmware_error_counter + 1
    /\ IF hist'[2].kind = "data" /\ firmware_error_counter' > MAX_ERRORS
       THEN pc' = "done" /\ result' = "FirmwareCorrupted"
       ELSE pc' = "loop" /\ result' = "none"

\* C28: at every exchange of the upload loop a transfer error and a reply
\* with a bad checksum lead to the same state change: the cursors swapped,
\* message_type 0, one more error counted, the same test of the budget
C28_TransferErrorAsBadChecksum ==
    [][ExchangeFails => ErrorPathTaken]_vars


---------------------------------------------------------------------------
(* The record the loop reads *)

\* a file of more than one record whose only record of type 7 is the last
TerminalLast(ls) ==
    /\ Len(ls) > 1
    /\ \A i \in 1..Len(ls) :
          /\ Len(ls[i]) >= 2
          /\ ls[i][2] = "7" <=> i = Len(ls)

\* C29: for a file whose only type-7 record is the last, whenever the loop
\* reads lines[line_number], line_number is the index of a record of the
\* file that is not empty, whatever the replies and transfer errors were
C29_RecordReadExists ==
    (TerminalLast(lines) /\ pc = "loop" /\ message_type # 7) =>
        /\ line_number \in 0..(Len(lines) - 1)
        /\ lines[line_number + 1] # <<>>


---------------------------------------------------------------------------
(* No record is left out *)

\* C30: when a firmware message with the type-7 record goes out, every
\* record before it has gone out in a firmware message and its
\* acknowledgement has been accepted afterwards, on a data exchange or on
\* the status probe, whatever errors, swaps and resends there were
C30_NoRecordSkipped ==
    [][DataSent /\ wire'.bytes[9] = 7 =>
          \A i \in 0..(line_number - 1) :
             i \in ledger.sent /\ i \in ledger.acked]_vars

\* the last of four records has gone out and was acknowledged, after errors
\* that a resend made good
C30_Witness ==
    /\ Len(lines) = 4
    /\ pc = "escape"
    /\ ~trace.clean
    /\ firmware_error_counter = 0
    /\ line_number = 3
    /\ ledger.sent = 0..3
    /\ ledger.acked = 0..2


---------------------------------------------------------------------------
(* The line the next reply is checked against *)

\* C31: after every exchange of a firmware message that does not end the
\* upload (the first reply discarded, the reply accepted with an even or an
\* odd error counter, the reply invalid, the transfer failed),
\* firmware_line_check is the line number that frame carried
C31_CheckIsLineLastSent ==
    [][DataSent /\ pc' # "done" =>
          /\ wire'.bytes[1] = 39
          /\ firmware_line_check' = LineField(wire'.bytes)
          /\ firmware_line_check' = line_number]_vars

\* a firmware message whose reply was not accepted: the cursors are swapped
\* and firmware_line_check is the line of that message
C31_Witness ==
    /\ pc = "loop"
    /\ hist[2].kind = "data"
    /\ ~hist[2].good
    /\ firmware_error_counter = 1
    /\ wire.bytes[1] = 39
    /\ firmware_line_check = LineField(wire.bytes)
    /\ line_number = firmware_line_check - 1


---------------------------------------------------------------------------
(* The reply to the long probe *)

\* C32: whatever 61 bytes the long probe returns, a length byte of 61 or
\* more included, and when its transfer fails, the engine takes the probe
\* as passed or failed and goes on with the loop; reading the reply never
\* ends the upload, and a probe whose transfer failed is not taken as passed
C32_EscapeReplyAlwaysClassified ==
    [][pc = "escape" =>
          /\ pc' = "loop"
          /\ result' = "none"
          /\ message_type' \in {0, 7}
          /\ ~wire'.io => message_type' = 0]_vars


---------------------------------------------------------------------------
(* The copy of a record into the firmware message *)

\* the loop is about to build a firmware message from lines[line_number]
BuildsFrame ==
    /\ \/ pc = "send"
       \/ pc = "loop" /\ message_type # 7
    /\ read_type >= 0
    /\ read_length >= 0

\* C33: building a firmware message from a record with length byte L, any
\* byte, writes the bytes of the record to tx_buf[9..=44] only: none to the
\* checksum slot tx_buf[45], none outside the 47 bytes of tx_buf, and
\* line_length*2+2 does not overflow its 8 bits
C33_RecordBytesInPayload ==
    BuildsFrame =>
       /\ read_length * 2 + 2 <= 255
       /\ data_frame(tx_buf, lines[line_number + 1], line_number, read_type,
                     read_length, overflow_checks).ok
       /\ last_written(9, 2, copy_bound(read_length, overflow_checks))
             <= BOOTMESSAGE_LENGTH - 2

=============================================================================
